---- MODULE Spec2Model ----
(***************************************************************************)
(* Model of the asset-resolution pipeline of the Figma MCP server:         *)
(*   collectImageReferences / injectImageUrls  (utils/image-processing.ts) *)
(*   FigmaService.processDesignImages          (services/figma.ts)         *)
(*   getFigmaData                              (get-figma-data tool)       *)
(*   downloadAndProcessImageToBuffer, applyCropTransformToBuffer           *)
(*   uploadBufferToS3, getS3ConfigFromEnv      (utils/s3-upload.ts)        *)
(*                                                                         *)
(* Conventions.                                                            *)
(*  - A JS string is a sequence of one-character strings, so that          *)
(*    concatenation, substring and replace are computed, not assumed.      *)
(*  - An optional field is a sequence of length <= 1: <<>> is "absent",    *)
(*    <<v>> is "present with value v".                                     *)
(*  - A JS Map is the sequence of its entries in insertion order.          *)
(***************************************************************************)
EXTENDS Integers, Sequences, FiniteSets, TLC

VARIABLES
    design,        \* the SimplifiedDesign being processed (mutated in place by injectImageUrls)
    design0,       \* history: the design as it was before the image pipeline ran
    env,           \* process.env: which of the four storage values are set
    entry,         \* which exported operation is running
    downloadImages,\* get_figma_data's downloadImages parameter
    pc,            \* position of the running operation
    imageFills,    \* ImageCollectionResult.imageFills
    svgNodeIds,    \* ImageCollectionResult.svgNodeIds
    fillUrls,      \* response of the batched image-fill URL request (optional)
    svgUrls,       \* response of the batched render URL request (optional)
    downloadJobs,  \* processDesignImages' downloadJobs array
    jobPc,         \* per job: position of its async body
    urlMap,        \* the UrlMap built / returned by processDesignImages
    net,           \* history: counts of the requests issued
    response,      \* what the operation returned to its caller
    job,           \* single-operation harnesses: the inputs of the operation under test
    jr             \* single-operation harnesses: pc and locals of the operation under test

vars == <<design, design0, env, entry, downloadImages, pc, imageFills, svgNodeIds,
          fillUrls, svgUrls, downloadJobs, jobPc, urlMap, net, response, job, jr>>

pipeVars == <<design, design0, env, entry, downloadImages, pc, imageFills, svgNodeIds,
              fillUrls, svgUrls, downloadJobs, jobPc, urlMap, net, response>>

(***************************************************************************)
(* Bounds of the model.                                                    *)
(***************************************************************************)
\* most fills in the Style Registry of a design run through the pipeline
MaxFills == 2
\* most fills in the Style Registry of a design given to the pure utilities
MaxUtilFills == 2
\* largest image width and height (pixels) of the single-job harness
MaxDim == 3
\* scale entries range over -1 .. MaxT and translate entries over -1 .. MaxT - 1,
\* in units of 1/TUnit
MaxT == 3
\* transform entries are multiples of 1/TUnit (at 2, products such as 1.5 occur and
\* rounding matters)
TUnit == 2
\* most nodes in one download_figma_images request
MaxNodes == 3
\* most intern calls in one traversal
MaxInterns == 3
\* largest maxDepth option, and most extractors in a list
MaxDepthArg == 3
MaxExtractors == 2

(***************************************************************************)
(* Optional values and JS truthiness.                                      *)
(***************************************************************************)
None == <<>>
Some(v) == <<v>>

\* truthiness of an optional string: absent (undefined) and "" are falsy
TruthyStr(o) == o # None /\ o[1] # <<>>

\* `o ?? d` for an optional value
OrElse(o, d) == IF o = None THEN d ELSE o[1]

(***************************************************************************)
(* JS Map as an insertion-ordered sequence of [key, value] entries.        *)
(***************************************************************************)
MapKeys(m) == {m[i].key : i \in 1..Len(m)}

MapHas(m, k) == \E i \in 1..Len(m) : m[i].key = k

MapGet(m, k) ==
    IF MapHas(m, k)
    THEN Some(m[CHOOSE i \in 1..Len(m) : m[i].key = k].value)
    ELSE None

MapSet(m, k, v) ==
    IF MapHas(m, k)
    THEN LET i == CHOOSE j \in 1..Len(m) : m[j].key = k
         IN [m EXCEPT ![i] = [key |-> k, value |-> v]]
    ELSE Append(m, [key |-> k, value |-> v])

(***************************************************************************)
(* collectImageReferences and injectImageUrls.                             *)
(***************************************************************************)
\* the type guard isImageFill
isImageFill(fill) == fill.type = "IMAGE"

\* the unique key of an image fill: imageRef, or imageRef-suffix when the fill
\* has a (truthy) filenameSuffix
UniqueKeyNoSuffix(fill) == fill.imageRef[1]

UniqueKey(fill) ==
    IF fill.imageDownloadArguments # None
       /\ TruthyStr(fill.imageDownloadArguments[1].filenameSuffix)
    THEN fill.imageRef[1] \o <<"-">> \o fill.imageDownloadArguments[1].filenameSuffix[1]
    ELSE fill.imageRef[1]

\* the ImageFillInfo stored for the first fill of a key
FillInfo(fill) ==
    LET a == fill.imageDownloadArguments IN
    [imageRef |-> fill.imageRef[1],
     needsCropping |-> IF a = None THEN FALSE ELSE OrElse(a[1].needsCropping, FALSE),
     cropTransform |-> IF a = None THEN None ELSE a[1].cropTransform,
     requiresImageDimensions |->
         IF a = None THEN FALSE ELSE OrElse(a[1].requiresImageDimensions, FALSE),
     filenameSuffix |-> IF a = None THEN None ELSE a[1].filenameSuffix]

\* one iteration of the inner loop of collectImageReferences
CollectFillAlways(acc, fill) ==
    IF isImageFill(fill) /\ TruthyStr(fill.imageRef)
    THEN Append(acc, [key |-> UniqueKey(fill), value |-> FillInfo(fill)])
    ELSE acc

\* the same iteration, were a later fill of a key to replace the stored item
CollectFillOverwrite(acc, fill) ==
    IF isImageFill(fill) /\ TruthyStr(fill.imageRef)
    THEN MapSet(acc, UniqueKey(fill), FillInfo(fill))
    ELSE acc

CollectFill(acc, fill) ==
    IF isImageFill(fill) /\ TruthyStr(fill.imageRef)
    THEN IF ~MapHas(acc, UniqueKey(fill))
         THEN MapSet(acc, UniqueKey(fill), FillInfo(fill))
         ELSE acc
    ELSE acc

RECURSIVE CollectFills(_, _)
CollectFills(acc, fills) ==
    IF fills = <<>> THEN acc
    ELSE CollectFills(CollectFill(acc, Head(fills)), Tail(fills))

\* the outer loop over Object.entries(design.globalVars.styles)
RECURSIVE CollectStyles(_, _)
CollectStyles(acc, styles) ==
    IF styles = <<>> THEN acc
    ELSE LET styleValue == Head(styles) IN
         CollectStyles(IF styleValue.isArray THEN CollectFills(acc, styleValue.fills) ELSE acc,
                       Tail(styles))

collectSvgNodesTopLevel(nodes, result) ==
    LET svgs == SelectSeq(nodes, LAMBDA n : n.type = "IMAGE-SVG")
    IN result \o [i \in 1..Len(svgs) |-> svgs[i].id]

RECURSIVE collectSvgNodesRecursive(_, _)
collectSvgNodesRecursive(nodes, result) ==
    IF nodes = <<>> THEN result
    ELSE LET node == Head(nodes)
             r1 == IF node.type = "IMAGE-SVG" THEN Append(result, node.id) ELSE result
             r2 == IF node.children # None
                   THEN collectSvgNodesRecursive(node.children[1], r1)
                   ELSE r1
         IN collectSvgNodesRecursive(Tail(nodes), r2)

collectImageReferences(d) ==
    [imageFills |-> CollectStyles(<<>>, d.styles),
     svgNodeIds |-> collectSvgNodesRecursive(d.nodes, <<>>)]

\* one iteration of the inner loop of injectImageUrls
InjectFillDropArgs(fill, m) ==
    IF isImageFill(fill) /\ TruthyStr(fill.imageRef)
    THEN IF TruthyStr(MapGet(m, UniqueKey(fill)))
         THEN [fill EXCEPT !.imageUrl = MapGet(m, UniqueKey(fill)),
                           !.imageRef = None,
                           !.imageDownloadArguments = None]
         ELSE [fill EXCEPT !.imageDownloadArguments = None]
    ELSE fill

\* the same iteration, were the reference kept next to the URL
InjectFillKeepRef(fill, m) ==
    IF isImageFill(fill) /\ TruthyStr(fill.imageRef) /\ TruthyStr(MapGet(m, UniqueKey(fill)))
    THEN [fill EXCEPT !.imageUrl = MapGet(m, UniqueKey(fill))]
    ELSE fill

\* the same iteration, were the download arguments deleted and the reference kept:
\* the fill's unique key is then another one on the next run
InjectFillKeepRefOnly(fill, m) ==
    IF isImageFill(fill) /\ TruthyStr(fill.imageRef) /\ TruthyStr(MapGet(m, UniqueKey(fill)))
    THEN [fill EXCEPT !.imageUrl = MapGet(m, UniqueKey(fill)),
                      !.imageDownloadArguments = None]
    ELSE fill

InjectFill(fill, m) ==
    IF isImageFill(fill) /\ TruthyStr(fill.imageRef)
    THEN LET s3Url == MapGet(m, UniqueKey(fill)) IN
         IF TruthyStr(s3Url)
         THEN [fill EXCEPT !.imageUrl = s3Url,
                           !.imageRef = None,
                           !.imageDownloadArguments = None]
         ELSE fill
    ELSE fill

InjectStyle(styleValue, m) ==
    IF styleValue.isArray
    THEN [styleValue EXCEPT !.fills = [i \in 1..Len(styleValue.fills) |->
                                          InjectFill(styleValue.fills[i], m)]]
    ELSE styleValue

injectSvgUrlsShallow(nodes, m) ==
    [i \in 1..Len(nodes) |->
        IF nodes[i].type = "IMAGE-SVG" /\ TruthyStr(MapGet(m, nodes[i].id))
        THEN [nodes[i] EXCEPT !.imageUrl = MapGet(m, nodes[i].id)]
        ELSE nodes[i]]

RECURSIVE injectSvgUrlsRecursive(_, _)
injectSvgUrlsRecursive(nodes, m) ==
    [i \in 1..Len(nodes) |->
        LET node == nodes[i]
            n1 == IF node.type = "IMAGE-SVG" /\ TruthyStr(MapGet(m, node.id))
                  THEN [node EXCEPT !.imageUrl = MapGet(m, node.id)]
                  ELSE node
        IN IF node.children # None
           THEN [n1 EXCEPT !.children = Some(injectSvgUrlsRecursive(node.children[1], m))]
           ELSE n1]

injectImageUrls(d, m) ==
    [styles |-> [i \in 1..Len(d.styles) |-> InjectStyle(d.styles[i], m)],
     nodes |-> injectSvgUrlsRecursive(d.nodes, m)]

(***************************************************************************)
(* Designs the operations are run on.  The per-type extractors and the     *)
(* traversal engine that produce a SimplifiedDesign are outside the model; *)
(* a design is drawn from the shapes their output type allows:             *)
(*   styles: the values of globalVars.styles in Object.entries order, each *)
(*           a fill list (isArray) or some other style payload;            *)
(*   nodes:  the SimplifiedNode forest, node ids unique within a design.   *)
(***************************************************************************)
Fill(type, ref, args) ==
    [type |-> type, imageRef |-> ref, imageDownloadArguments |-> args, imageUrl |-> None]

Args(crop, transform, dims, suffix) ==
    [needsCropping |-> Some(crop), cropTransform |-> transform,
     requiresImageDimensions |-> Some(dims), filenameSuffix |-> suffix]

\* [[scaleX, skewX, translateX], [skewY, scaleY, translateY]], entries in units of 1/TUnit
Transform(sx, tx, sy, ty) == <<<<sx, 0, tx>>, <<0, sy, ty>>>>

HalfCrop == Transform(1, 1, TUnit, 0)

SolidFill == Fill("SOLID", None, None)
FillA == Fill("IMAGE", Some(<<"a">>), Some(Args(FALSE, None, FALSE, None)))
FillA_b == Fill("IMAGE", Some(<<"a">>), Some(Args(TRUE, Some(HalfCrop), TRUE, Some(<<"b">>))))
FillAB == Fill("IMAGE", Some(<<"a", "-", "b">>), None)

PipeFillSamples == {SolidFill, FillA, FillA_b, FillAB}
UtilFillSamples ==
    {SolidFill, FillA, FillA_b, FillAB,
     Fill("IMAGE", Some(<<"a">>), Some(Args(TRUE, Some(HalfCrop), FALSE, Some(<<"c">>)))),
     Fill("IMAGE", None, None),
     Fill("IMAGE", Some(<<"a">>), Some(Args(TRUE, Some(HalfCrop), TRUE, None)))}

Node(id, type, children) ==
    [id |-> id, type |-> type, children |-> children, imageUrl |-> None]

Id12 == <<"1", ":", "2">>
Id13 == <<"1", ":", "3">>
Id15 == <<"1", ":", "5">>

TreeFlat == <<Node(<<"1", ":", "1">>, "FRAME", None)>>
TreeOne ==
    <<Node(<<"1", ":", "1">>, "FRAME",
           Some(<<Node(<<"1", ":", "4">>, "RECTANGLE", None), Node(Id12, "IMAGE-SVG", None)>>))>>
TreeTwo ==
    <<Node(<<"1", ":", "1">>, "FRAME",
           Some(<<Node(<<"1", ":", "4">>, "FRAME", Some(<<Node(Id15, "IMAGE-SVG", None)>>))>>)),
      Node(Id12, "IMAGE-SVG", Some(<<>>))>>
TreeDeep ==
    <<Node(<<"1", ":", "1">>, "FRAME",
           Some(<<Node(Id13, "IMAGE-SVG", Some(<<Node(Id15, "IMAGE-SVG", None)>>)),
                  Node(<<"1", ":", "4">>, "TEXT", None)>>)),
      Node(Id12, "IMAGE-SVG", None)>>

OtherStyle == [isArray |-> FALSE, fills |-> <<>>]
FillList(fills) == [isArray |-> TRUE, fills |-> fills]

SeqsUpTo(S, n) == UNION {[1..k -> S] : k \in 0..n}

\* a registry holding the fills fl: the first s in one fill list, a non-list style,
\* the rest in a second fill list
MakeDesign(fl, s, tree) ==
    [styles |-> <<FillList(SubSeq(fl, 1, s)), OtherStyle, FillList(SubSeq(fl, s + 1, Len(fl)))>>,
     nodes |-> tree]

PipeDesigns ==
    {MakeDesign(fl, IF Len(fl) = 0 THEN 0 ELSE 1, t) :
        fl \in SeqsUpTo(PipeFillSamples, MaxFills), t \in {TreeFlat, TreeOne, TreeTwo}}

UtilDesigns ==
    UNION {{MakeDesign(fl, s, t) : s \in 0..Len(fl), t \in {TreeFlat, TreeOne, TreeDeep}} :
              fl \in SeqsUpTo(UtilFillSamples, MaxUtilFills)}

\* all fills of a registry, in iteration order
RECURSIVE AllFillsOf(_)
AllFillsOf(styles) ==
    IF styles = <<>> THEN <<>>
    ELSE (IF Head(styles).isArray THEN Head(styles).fills ELSE <<>>) \o AllFillsOf(Tail(styles))

\* all nodes of a forest, in document order
RECURSIVE AllNodesOf(_)
AllNodesOf(nodes) ==
    IF nodes = <<>> THEN <<>>
    ELSE <<Head(nodes)>>
         \o (IF Head(nodes).children # None THEN AllNodesOf(Head(nodes).children[1]) ELSE <<>>)
         \o AllNodesOf(Tail(nodes))

Range(s) == {s[i] : i \in 1..Len(s)}

(***************************************************************************)
(* The harness for the pure utilities: collectImageReferences and          *)
(* injectImageUrls applied to a drawn design and a drawn UrlMap.           *)
(***************************************************************************)
UrlFor(k) == <<"https://cdn/">> \o k

UtilKeys == <<<<"a">>, <<"a", "-", "b">>, Id12>>

RECURSIVE MapOver(_, _)
MapOver(keys, K) ==
    IF keys = <<>> THEN <<>>
    ELSE (IF Head(keys) \in K THEN <<[key |-> Head(keys), value |-> UrlFor(Head(keys))]>> ELSE <<>>)
         \o MapOver(Tail(keys), K)

NoNet == [fillUrlRequests |-> 0, svgUrlRequests |-> 0, downloads |-> <<>>, uploads |-> <<>>,
          collects |-> 0, injects |-> 0]

NoJob == [fileName |-> <<>>]
NoJr == [pc |-> "idle"]

UtilInit ==
    /\ design \in UtilDesigns
    /\ design0 = design
    /\ urlMap \in {MapOver(UtilKeys, K) : K \in SUBSET Range(UtilKeys)}
    /\ env = [region |-> FALSE, bucketName |-> FALSE, accessKeyId |-> FALSE,
              secretAccessKey |-> FALSE]
    /\ entry = "util"
    /\ downloadImages = FALSE
    /\ pc = "util"
    /\ imageFills = <<>>
    /\ svgNodeIds = <<>>
    /\ fillUrls = None
    /\ svgUrls = None
    /\ downloadJobs = <<>>
    /\ jobPc = <<>>
    /\ net = NoNet
    /\ response = "none"
    /\ job = NoJob
    /\ jr = NoJr

\* a caller runs collectImageReferences(design)
UtilCollect ==
    /\ pc = "util"
    /\ net.collects = 0
    /\ net.injects = 0
    /\ imageFills' = collectImageReferences(design).imageFills
    /\ svgNodeIds' = collectImageReferences(design).svgNodeIds
    /\ net' = [net EXCEPT !.collects = 1]
    /\ UNCHANGED <<design, design0, env, entry, downloadImages, pc, fillUrls, svgUrls,
                   downloadJobs, jobPc, urlMap, response, job, jr>>

\* a caller runs injectImageUrls(design, urlMap); at most twice in a row
UtilInject ==
    /\ pc = "util"
    /\ net.injects < 2
    /\ design' = injectImageUrls(design, urlMap)
    /\ net' = [net EXCEPT !.injects = @ + 1]
    /\ UNCHANGED <<design0, env, entry, downloadImages, pc, imageFills, svgNodeIds, fillUrls,
                   svgUrls, downloadJobs, jobPc, urlMap, response, job, jr>>

UtilNext == UtilCollect \/ UtilInject

SpecUtil == UtilInit /\ [][UtilNext]_vars

(***************************************************************************)
(* Storage configuration.                                                  *)
(***************************************************************************)
\* env.X is TRUE when process.env.X is set to a non-empty string
S3ConfigIgnoringSecret(e) ==
    IF ~e.region \/ ~e.bucketName \/ ~e.accessKeyId THEN None ELSE Some("s3Config")

getS3ConfigFromEnv(e) ==
    IF ~e.region \/ ~e.bucketName \/ ~e.accessKeyId \/ ~e.secretAccessKey
    THEN None
    ELSE Some("s3Config")

(***************************************************************************)
(* FigmaService.processDesignImages: the synchronous parts.                *)
(***************************************************************************)
Min(a, b) == IF a < b THEN a ELSE b

\* s.substring(0, n)
Substring0(s, n) == SubSeq(s, 1, Min(n, Len(s)))

\* s.replace(/:/g, "-")
ReplaceColons(s) == [i \in 1..Len(s) |-> IF s[i] = ":" THEN "-" ELSE s[i]]

FillFileName(info) ==
    IF TruthyStr(info.filenameSuffix)
    THEN Substring0(info.imageRef, 8) \o <<"-">> \o info.filenameSuffix[1] \o <<".png">>
    ELSE Substring0(info.imageRef, 8) \o <<".png">>

SvgFileName(nodeId) == ReplaceColons(nodeId) \o <<".svg">>

\* the loop over imageFills after getImageFillUrls returned urls
RECURSIVE EnqueueFillJobsAll(_, _, _)
EnqueueFillJobsAll(jobs, fills, urls) ==
    IF fills = <<>> THEN jobs
    ELSE LET uniqueKey == Head(fills).key
             info == Head(fills).value
             imageUrl == MapGet(urls, info.imageRef)
         IN EnqueueFillJobsAll(
                Append(jobs, [uniqueKey |-> uniqueKey,
                              fileName |-> FillFileName(info),
                              imageUrl |-> OrElse(imageUrl, <<>>),
                              needsCropping |-> info.needsCropping,
                              cropTransform |-> info.cropTransform,
                              requiresImageDimensions |-> info.requiresImageDimensions]),
                Tail(fills), urls)

RECURSIVE EnqueueFillJobs(_, _, _)
EnqueueFillJobs(jobs, fills, urls) ==
    IF fills = <<>> THEN jobs
    ELSE LET uniqueKey == Head(fills).key
             info == Head(fills).value
             imageUrl == MapGet(urls, info.imageRef)
         IN EnqueueFillJobs(
                IF TruthyStr(imageUrl)
                THEN Append(jobs, [uniqueKey |-> uniqueKey,
                                   fileName |-> FillFileName(info),
                                   imageUrl |-> imageUrl[1],
                                   needsCropping |-> info.needsCropping,
                                   cropTransform |-> info.cropTransform,
                                   requiresImageDimensions |-> info.requiresImageDimensions])
                ELSE jobs,
                Tail(fills), urls)

\* filterValidImages: drop the null (and empty) entries of a render response
RECURSIVE filterValidImages(_)
filterValidImages(images) ==
    IF images = <<>> THEN <<>>
    ELSE (IF TruthyStr(Head(images).value)
          THEN <<[key |-> Head(images).key, value |-> Head(images).value[1]]>>
          ELSE <<>>) \o filterValidImages(Tail(images))

\* the loop over svgNodeIds, were a job pushed for every id
RECURSIVE EnqueueSvgJobsAll(_, _, _)
EnqueueSvgJobsAll(jobs, ids, urls) ==
    IF ids = <<>> THEN jobs
    ELSE EnqueueSvgJobsAll(
             Append(jobs, [uniqueKey |-> Head(ids),
                           fileName |-> SvgFileName(Head(ids)),
                           imageUrl |-> OrElse(MapGet(urls, Head(ids)), <<>>),
                           needsCropping |-> FALSE,
                           cropTransform |-> None,
                           requiresImageDimensions |-> FALSE]),
             Tail(ids), urls)

\* the loop over svgNodeIds after getNodeRenderUrls returned urls
RECURSIVE EnqueueSvgJobs(_, _, _)
EnqueueSvgJobs(jobs, ids, urls) ==
    IF ids = <<>> THEN jobs
    ELSE LET nodeId == Head(ids)
             imageUrl == MapGet(urls, nodeId)
         IN EnqueueSvgJobs(
                IF TruthyStr(imageUrl)
                THEN Append(jobs, [uniqueKey |-> nodeId,
                                   fileName |-> SvgFileName(nodeId),
                                   imageUrl |-> imageUrl[1],
                                   needsCropping |-> FALSE,
                                   cropTransform |-> None,
                                   requiresImageDimensions |-> FALSE])
                ELSE jobs,
                Tail(ids), urls)

\* the final public URL of an upload; randomUUID() is fresh for every call and
\* each job calls uploadBufferToS3 once, so the job's index stands for its uuid
S3Url(j, fileName) == <<"https://bucket.s3/", ToString(j), "-">> \o fileName

\* Promise.allSettled resolves once every job has settled
Settled(p) == p \in {"fulfilled", "rejected"}

FailFast(pcs) ==
    \/ \A j \in 1..Len(pcs) : pcs[j] = "fulfilled"
    \/ \E j \in 1..Len(pcs) : pcs[j] = "rejected"

AllSettled(pcs) == \A j \in 1..Len(pcs) : Settled(pcs[j])

\* the loop that builds urlMap from the settled results
RECURSIVE BuildUrlMapUntilFailure(_, _, _, _)
BuildUrlMapUntilFailure(m, jobs, pcs, j) ==
    IF j > Len(jobs) \/ pcs[j] # "fulfilled" THEN m
    ELSE BuildUrlMapUntilFailure(
             MapSet(m, jobs[j].uniqueKey, S3Url(j, jobs[j].fileName)), jobs, pcs, j + 1)

RECURSIVE BuildUrlMap(_, _, _, _)
BuildUrlMap(m, jobs, pcs, j) ==
    IF j > Len(jobs) THEN m
    ELSE BuildUrlMap(
             IF pcs[j] = "fulfilled"
             THEN MapSet(m, jobs[j].uniqueKey, S3Url(j, jobs[j].fileName))
             ELSE m,
             jobs, pcs, j + 1)

\* the distinct imageRefs of the work items, in order (what the batch request covers)
RECURSIVE RefsOf(_, _)
RefsOf(fills, acc) ==
    IF fills = <<>> THEN acc
    ELSE RefsOf(Tail(fills),
                IF Head(fills).value.imageRef \in Range(acc) THEN acc
                ELSE Append(acc, Head(fills).value.imageRef))

SrcUrl(k) == <<"https://figma/">> \o k

\* a response object over keys: the keys in K carry a URL, the others null
RECURSIVE ResponseOver(_, _)
ResponseOver(keys, K) ==
    IF keys = <<>> THEN <<>>
    ELSE <<[key |-> Head(keys),
            value |-> IF Head(keys) \in K THEN Some(SrcUrl(Head(keys))) ELSE None]>>
         \o ResponseOver(Tail(keys), K)

\* a response object over keys in which only the keys in K are present
RECURSIVE ObjectOver(_, _)
ObjectOver(keys, K) ==
    IF keys = <<>> THEN <<>>
    ELSE (IF Head(keys) \in K THEN <<[key |-> Head(keys), value |-> SrcUrl(Head(keys))]>>
          ELSE <<>>) \o ObjectOver(Tail(keys), K)

(***************************************************************************)
(* The pipeline: getFigmaData (entry "getFigmaData") and a direct caller   *)
(* of the exported pipeline functions (entry "processDesignImages"):       *)
(* collectImageReferences, processDesignImages, injectImageUrls.           *)
(***************************************************************************)
Init ==
    /\ design \in PipeDesigns
    /\ design0 = design
    /\ env \in [region : BOOLEAN, bucketName : BOOLEAN, accessKeyId : BOOLEAN,
                secretAccessKey : BOOLEAN]
    /\ \/ entry = "getFigmaData" /\ downloadImages \in BOOLEAN
       \/ entry = "processDesignImages" /\ downloadImages = TRUE
    /\ pc = "start"
    /\ imageFills = <<>>
    /\ svgNodeIds = <<>>
    /\ fillUrls = None
    /\ svgUrls = None
    /\ downloadJobs = <<>>
    /\ jobPc = <<>>
    /\ urlMap = <<>>
    /\ net = NoNet
    /\ response = "none"
    /\ job = NoJob
    /\ jr = NoJr

\* processDesignImages from its entry to its first await (or its early return)
PdiEnter(fills, ids) ==
    IF getS3ConfigFromEnv(env) = None
    THEN /\ pc' = "pdi_returned"
         /\ net' = net
    ELSE IF Len(fills) > 0
    THEN /\ pc' = "await_fill_urls"
         /\ net' = [net EXCEPT !.fillUrlRequests = @ + 1]
    ELSE IF Len(ids) > 0
    THEN /\ pc' = "await_svg_urls"
         /\ net' = [net EXCEPT !.svgUrlRequests = @ + 1]
    ELSE /\ pc' = "pdi_returned"
         /\ net' = net

\* downloadJobs.map(async (job) => ...): every job body runs to its first await,
\* the fetch of downloadAndProcessImageToBuffer
Launch(jobs) ==
    /\ downloadJobs' = jobs
    /\ IF Len(jobs) = 0
       THEN /\ pc' = "pdi_returned"
            /\ jobPc' = jobPc
            /\ net' = net
       ELSE /\ pc' = "jobs"
            /\ jobPc' = [j \in 1..Len(jobs) |-> "download"]
            /\ net' = [net EXCEPT !.downloads = [j \in 1..Len(jobs) |-> 1],
                                  !.uploads = [j \in 1..Len(jobs) |-> 0]]

\* getFigmaData: getRawFile / getRawNode and simplifyRawFigmaObject
GfdFetch ==
    /\ entry = "getFigmaData"
    /\ pc = "start"
    /\ \/ pc' = "simplified" /\ response' = response
       \/ pc' = "done" /\ response' = "fetch_error"
    /\ UNCHANGED <<design, design0, env, entry, downloadImages, imageFills, svgNodeIds,
                   fillUrls, svgUrls, downloadJobs, jobPc, urlMap, net, job, jr>>

\* getFigmaData from the downloadImages test to the await of processDesignImages
GfdImages ==
    /\ entry = "getFigmaData"
    /\ pc = "simplified"
    /\ IF ~downloadImages
       THEN /\ pc' = "done" /\ response' = "ok"
            /\ UNCHANGED <<imageFills, svgNodeIds, net>>
       ELSE IF getS3ConfigFromEnv(env) = None
       THEN /\ pc' = "done" /\ response' = "ok_image_warning"
            /\ UNCHANGED <<imageFills, svgNodeIds, net>>
       ELSE LET c == collectImageReferences(design) IN
            /\ imageFills' = c.imageFills
            /\ svgNodeIds' = c.svgNodeIds
            /\ IF Len(c.imageFills) > 0 \/ Len(c.svgNodeIds) > 0
               THEN /\ PdiEnter(c.imageFills, c.svgNodeIds)
                    /\ response' = response
               ELSE /\ pc' = "done" /\ response' = "ok"
                    /\ net' = net
    /\ UNCHANGED <<design, design0, env, entry, downloadImages, fillUrls, svgUrls,
                   downloadJobs, jobPc, urlMap, job, jr>>

\* a direct caller: collectImageReferences, then processDesignImages on its result
DirectCall ==
    /\ entry = "processDesignImages"
    /\ pc = "start"
    /\ LET c == collectImageReferences(design) IN
       /\ imageFills' = c.imageFills
       /\ svgNodeIds' = c.svgNodeIds
       /\ PdiEnter(c.imageFills, c.svgNodeIds)
    /\ UNCHANGED <<design, design0, env, entry, downloadImages, fillUrls, svgUrls,
                   downloadJobs, jobPc, urlMap, response, job, jr>>

\* getImageFillUrls settles: it throws, or it gives the URLs of some of the refs
FillUrlsReturn ==
    /\ pc = "await_fill_urls"
    /\ \/ /\ pc' = "pdi_threw"
          /\ UNCHANGED <<fillUrls, svgUrls, downloadJobs, jobPc, net>>
       \/ \E K \in SUBSET Range(RefsOf(imageFills, <<>>)) :
             LET urls == ObjectOver(RefsOf(imageFills, <<>>), K)
                 jobs == EnqueueFillJobs(<<>>, imageFills, urls)
             IN /\ fillUrls' = Some(urls)
                /\ svgUrls' = svgUrls
                /\ IF Len(svgNodeIds) > 0
                   THEN /\ pc' = "await_svg_urls"
                        /\ downloadJobs' = jobs
                        /\ jobPc' = jobPc
                        /\ net' = [net EXCEPT !.svgUrlRequests = @ + 1]
                   ELSE Launch(jobs)
    /\ UNCHANGED <<design, design0, env, entry, downloadImages, imageFills, svgNodeIds, urlMap, response, job, jr>>

\* getNodeRenderUrls settles: it throws, or it gives the URLs of some of the nodes
SvgUrlsReturn ==
    /\ pc = "await_svg_urls"
    /\ \/ /\ pc' = "pdi_threw"
          /\ UNCHANGED <<fillUrls, svgUrls, downloadJobs, jobPc, net>>
       \/ \E K \in SUBSET Range(svgNodeIds) :
             LET urls == filterValidImages(ResponseOver(svgNodeIds, K))
             IN /\ svgUrls' = Some(urls)
                /\ fillUrls' = fillUrls
                /\ Launch(EnqueueSvgJobs(downloadJobs, svgNodeIds, urls))
    /\ UNCHANGED <<design, design0, env, entry, downloadImages, imageFills, svgNodeIds, urlMap, response, job, jr>>

\* job j: the fetch of its image settles
JobDownloaded(j) ==
    /\ pc = "jobs"
    /\ jobPc[j] = "download"
    /\ \/ jobPc' = [jobPc EXCEPT ![j] = "process"]
       \/ jobPc' = [jobPc EXCEPT ![j] = "rejected"]
    /\ UNCHANGED <<design, design0, env, entry, downloadImages, pc, imageFills, svgNodeIds,
                   fillUrls, svgUrls, downloadJobs, urlMap, net, response, job, jr>>

\* job j: dimensions, crop, dimensions again (every failure is caught inside);
\* then uploadBufferToS3 starts
JobProcessed(j) ==
    /\ pc = "jobs"
    /\ jobPc[j] = "process"
    /\ jobPc' = [jobPc EXCEPT ![j] = "upload"]
    /\ net' = [net EXCEPT !.uploads[j] = @ + 1]
    /\ UNCHANGED <<design, design0, env, entry, downloadImages, pc, imageFills, svgNodeIds,
                   fillUrls, svgUrls, downloadJobs, urlMap, response, job, jr>>

\* job j: the upload settles
JobUploaded(j) ==
    /\ pc = "jobs"
    /\ jobPc[j] = "upload"
    /\ \/ jobPc' = [jobPc EXCEPT ![j] = "fulfilled"]
       \/ jobPc' = [jobPc EXCEPT ![j] = "rejected"]
    /\ UNCHANGED <<design, design0, env, entry, downloadImages, pc, imageFills, svgNodeIds,
                   fillUrls, svgUrls, downloadJobs, urlMap, net, response, job, jr>>

JobStep(j) == JobDownloaded(j) \/ JobProcessed(j) \/ JobUploaded(j)

\* Promise.allSettled resolves; urlMap is built and returned
PdiSettle ==
    /\ pc = "jobs"
    /\ AllSettled(jobPc)
    /\ urlMap' = BuildUrlMap(<<>>, downloadJobs, jobPc, 1)
    /\ pc' = "pdi_returned"
    /\ UNCHANGED <<design, design0, env, entry, downloadImages, imageFills, svgNodeIds,
                   fillUrls, svgUrls, downloadJobs, jobPc, net, response, job, jr>>

\* getFigmaData after the await of processDesignImages
GfdFinish ==
    /\ entry = "getFigmaData"
    /\ \/ /\ pc = "pdi_returned"
          /\ IF Len(urlMap) > 0
             THEN /\ design' = injectImageUrls(design, urlMap)
                  /\ net' = [net EXCEPT !.injects = @ + 1]
             ELSE UNCHANGED <<design, net>>
          /\ response' = "ok"
       \/ /\ pc = "pdi_threw"
          /\ response' = "image_error"
          /\ UNCHANGED <<design, net>>
    /\ pc' = "done"
    /\ UNCHANGED <<design0, env, entry, downloadImages, imageFills, svgNodeIds, fillUrls,
                   svgUrls, downloadJobs, jobPc, urlMap, job, jr>>

\* the direct caller after processDesignImages: the URL Injector runs on its result
DirectFinish ==
    /\ entry = "processDesignImages"
    /\ \/ /\ pc = "pdi_returned"
          /\ design' = injectImageUrls(design, urlMap)
          /\ net' = [net EXCEPT !.injects = @ + 1]
          /\ response' = "ok"
       \/ /\ pc = "pdi_threw"
          /\ response' = "threw"
          /\ UNCHANGED <<design, net>>
    /\ pc' = "done"
    /\ UNCHANGED <<design0, env, entry, downloadImages, imageFills, svgNodeIds, fillUrls,
                   svgUrls, downloadJobs, jobPc, urlMap, job, jr>>

Next ==
    \/ GfdFetch
    \/ GfdImages
    \/ DirectCall
    \/ FillUrlsReturn
    \/ SvgUrlsReturn
    \/ \E j \in 1..Len(jobPc) : JobStep(j)
    \/ PdiSettle
    \/ GfdFinish
    \/ DirectFinish

Spec == Init /\ [][Next]_vars

(***************************************************************************)
(* One download job: downloadAndProcessImageToBuffer (with                 *)
(* applyCropTransformToBuffer and getBufferDimensions) followed by         *)
(* uploadBufferToS3, as the body of a job of processDesignImages runs it.  *)
(* Numbers are exact rationals: a transform entry n stands for n / TUnit.  *)
(***************************************************************************)
Max(a, b) == IF a > b THEN a ELSE b

\* Math.round(num / den) for den > 0: the nearest integer, halves towards +infinity
MathRound(num, den) == (2 * num + den) \div (2 * den)

\* cropTransform[r]?.[c] ?? d
At(t, r, c, d) == IF Len(t) >= r /\ Len(t[r]) >= c THEN t[r][c] ELSE d

\* the crop calculation of applyCropTransformToBuffer
ComputeCropUnclamped(t, width, height) ==
    LET scaleX == At(t, 1, 1, TUnit)
        translateX == At(t, 1, 3, 0)
        scaleY == At(t, 2, 2, TUnit)
        translateY == At(t, 2, 3, 0)
    IN [left |-> Max(0, MathRound(translateX * width, TUnit)),
        top |-> Max(0, MathRound(translateY * height, TUnit)),
        width |-> MathRound(scaleX * width, TUnit),
        height |-> MathRound(scaleY * height, TUnit)]

ComputeCrop(t, width, height) ==
    LET scaleX == At(t, 1, 1, TUnit)
        translateX == At(t, 1, 3, 0)
        scaleY == At(t, 2, 2, TUnit)
        translateY == At(t, 2, 3, 0)
        cropLeft == Max(0, MathRound(translateX * width, TUnit))
        cropTop == Max(0, MathRound(translateY * height, TUnit))
        cropWidth == Min(width - cropLeft, MathRound(scaleX * width, TUnit))
        cropHeight == Min(height - cropTop, MathRound(scaleY * height, TUnit))
    IN [left |-> cropLeft, top |-> cropTop, width |-> cropWidth, height |-> cropHeight]

\* the validation of the crop dimensions
InvalidCropNever(c) == FALSE
InvalidCrop(c) == c.width <= 0 \/ c.height <= 0

\* the bytes fetched from imageUrl, and the bytes sharp's extract(region) makes of them
Original == [bytes |-> "downloaded", extract |-> None]
Extracted(region) == [bytes |-> "downloaded", extract |-> Some(region)]

\* the dimensions getBufferDimensions falls back to
DefaultDim == 1000

\* getBufferDimensions: image says whether the downloaded bytes have readable metadata
getBufferDimensions(buffer, image) ==
    IF buffer.extract # None
    THEN [width |-> buffer.extract[1].width, height |-> buffer.extract[1].height]
    ELSE IF image.readable
    THEN [width |-> image.width, height |-> image.height]
    ELSE [width |-> DefaultDim, height |-> DefaultDim]

generateImageCSSVariables(d) ==
    <<"--original-width: ", ToString(d.width), "px; --original-height: ",
      ToString(d.height), "px;">>

\* fileName.toLowerCase().endsWith(".svg"); a file name ends with its extension token
ToLowerCase(tok) == IF tok = ".SVG" THEN ".svg" ELSE IF tok = ".PNG" THEN ".png" ELSE tok
IsSvgNameNever(fileName) == FALSE
IsSvgName(fileName) == Len(fileName) > 0 /\ ToLowerCase(fileName[Len(fileName)]) = ".svg"

\* wasCropped = !!cropRegion
WasCroppedAlways(cropRegion) == TRUE
WasCropped(cropRegion) == cropRegion # None

ScaleValues == -1..MaxT
TranslateValues == -1..(MaxT - 1)

Transforms ==
    {Transform(sx, tx, sy, ty) :
        sx \in ScaleValues, tx \in TranslateValues, sy \in ScaleValues, ty \in TranslateValues}
    \cup {<<>>}

Images == [readable : BOOLEAN, width : 1..MaxDim, height : 1..MaxDim]

Jobs ==
    [fileName : {<<"a", ".png">>, <<"1", "-", "2", ".svg">>, <<"1", "-", "2", ".SVG">>},
     needsCropping : BOOLEAN,
     cropTransform : {None} \cup {Some(t) : t \in Transforms},
     requiresImageDimensions : BOOLEAN,
     image : Images]

JobInit ==
    /\ job \in Jobs
    /\ jr = [pc |-> "fetch", buffer |-> None, originalDimensions |-> None, finalDimensions |-> None,
             wasCropped |-> FALSE, cropRegion |-> None, cssVariables |-> None,
             metadata |-> None, computed |-> None, extractThrew |-> FALSE, uploadArg |-> None]
    /\ design = MakeDesign(<<>>, 0, TreeFlat)
    /\ design0 = design
    /\ env = [region |-> TRUE, bucketName |-> TRUE, accessKeyId |-> TRUE,
              secretAccessKey |-> TRUE]
    /\ entry = "job"
    /\ downloadImages = TRUE
    /\ pc = "job"
    /\ imageFills = <<>>
    /\ svgNodeIds = <<>>
    /\ fillUrls = None
    /\ svgUrls = None
    /\ downloadJobs = <<>>
    /\ jobPc = <<>>
    /\ urlMap = <<>>
    /\ net = NoNet
    /\ response = "none"

\* the fetch of imageUrl settles: it throws or is not ok, or it yields the bytes
JobFetch ==
    /\ pc = "job"
    /\ jr.pc = "fetch"
    /\ \/ jr' = [jr EXCEPT !.pc = "rejected"]
       \/ jr' = [jr EXCEPT !.pc = "process", !.buffer = Some(Original)]
    /\ UNCHANGED <<pipeVars, job>>

\* getBufferDimensions, then applyCropTransformToBuffer up to its extract (when it is
\* called and gets that far)
JobProcess ==
    /\ pc = "job"
    /\ jr.pc = "process"
    /\ LET buffer == jr.buffer[1]
           originalDimensions == getBufferDimensions(buffer, job.image)
           isSvg == IsSvgName(job.fileName)
           j1 == [jr EXCEPT !.originalDimensions = Some(originalDimensions)]
       IN IF ~isSvg /\ job.needsCropping /\ job.cropTransform # None
          THEN IF ~job.image.readable
               THEN \* metadata() throws, or reports no width/height: the catch returns {buffer}
                    jr' = [j1 EXCEPT !.pc = "finish", !.cropRegion = None,
                                     !.wasCropped = WasCropped(None)]
               ELSE LET width == job.image.width
                        height == job.image.height
                        c == ComputeCrop(job.cropTransform[1], width, height)
                        j2 == [j1 EXCEPT !.metadata = Some([width |-> width, height |-> height]),
                                         !.computed = Some(c)]
                    IN IF InvalidCrop(c)
                       THEN jr' = [j2 EXCEPT !.pc = "finish", !.cropRegion = None,
                                             !.wasCropped = WasCropped(None)]
                       ELSE jr' = [j2 EXCEPT !.pc = "extract"]
          ELSE jr' = [j1 EXCEPT !.pc = "finish"]
    /\ UNCHANGED <<pipeVars, job>>

\* image.extract(region).toBuffer() settles: the cropped bytes, or it throws and the
\* catch returns {buffer}
JobExtract ==
    /\ pc = "job"
    /\ jr.pc = "extract"
    /\ \/ jr' = [jr EXCEPT !.pc = "finish",
                           !.buffer = Some(Extracted(jr.computed[1])),
                           !.cropRegion = jr.computed,
                           !.wasCropped = WasCropped(jr.computed)]
       \/ jr' = [jr EXCEPT !.pc = "finish",
                           !.extractThrew = TRUE,
                           !.cropRegion = None,
                           !.wasCropped = WasCropped(None)]
    /\ UNCHANGED <<pipeVars, job>>

\* the final dimensions and CSS variables; the result is returned to the job body,
\* which calls uploadBufferToS3(processed.buffer, ...)
JobFinish ==
    /\ pc = "job"
    /\ jr.pc = "finish"
    /\ LET buffer == jr.buffer[1]
           finalDimensions == IF IsSvgName(job.fileName) THEN jr.originalDimensions[1]
                              ELSE getBufferDimensions(buffer, job.image)
       IN jr' = [jr EXCEPT !.pc = "upload",
                           !.finalDimensions = Some(finalDimensions),
                           !.cssVariables = IF job.requiresImageDimensions
                                            THEN Some(generateImageCSSVariables(finalDimensions))
                                            ELSE None,
                           !.uploadArg = Some(buffer)]
    /\ UNCHANGED <<pipeVars, job>>

\* uploadBufferToS3 settles: it returns the URL, or it throws
JobUploadSettle ==
    /\ pc = "job"
    /\ jr.pc = "upload"
    /\ \/ jr' = [jr EXCEPT !.pc = "fulfilled"]
       \/ jr' = [jr EXCEPT !.pc = "rejected"]
    /\ UNCHANGED <<pipeVars, job>>

JobNext == JobFetch \/ JobProcess \/ JobExtract \/ JobFinish \/ JobUploadSettle

SpecJob == JobInit /\ [][JobNext]_vars

(***************************************************************************)
(* fetchWithRetry (utils/fetch-with-retry.ts): the primary fetch and the   *)
(* curl fallback.  job holds what the network will answer; jr the pc and   *)
(* locals of the call.                                                     *)
(***************************************************************************)
\* String.prototype.toLowerCase on the letters the model uses
LowerChar(c) ==
    CASE c = "E" -> "e" [] c = "R" -> "r" [] c = "O" -> "o" [] c = "F" -> "f"
      [] c = "A" -> "a" [] c = "I" -> "i" [] c = "L" -> "l" [] OTHER -> c

StrLower(s) == [i \in 1..Len(s) |-> LowerChar(s[i])]

\* String.prototype.includes
Includes(s, sub) ==
    \E i \in 0..(Len(s) - Len(sub)) : SubSeq(s, i + 1, i + Len(sub)) = sub

\* response.ok
ResponseOk(status) == status >= 200 /\ status <= 299

StatusText(status) ==
    CASE status = 200 -> "OK" [] status = 201 -> "Created" [] status = 404 -> "Not Found"
      [] status = 429 -> "Too Many Requests" [] OTHER -> "Internal Server Error"

JsonObject(status) == [kind |-> "object", status |-> status]

Bodies ==
    {[kind |-> "garbage", status |-> None], [kind |-> "null", status |-> None]}
        \cup {JsonObject(st) : st \in {None, Some(0), Some(200), Some(403)}}

\* JSON.parse / response.json(): the value, or nothing when it throws
JsonParse(body) == IF body.kind = "garbage" THEN None ELSE Some(body)

\* the errors of the primary path
TransportError(why) == [from |-> "fetch", kind |-> why, status |-> None, statusText |-> None]
HttpError(status) ==
    [from |-> "fetch", kind |-> "http", status |-> Some(status),
     statusText |-> Some(StatusText(status))]
BodyError == [from |-> "fetch", kind |-> "json", status |-> None, statusText |-> None]

\* the errors of the fallback path
CurlError(kind) == [from |-> "curl", kind |-> kind, status |-> None, statusText |-> None]

PrimaryAnswers ==
    {[kind |-> "transport", why |-> w, status |-> None, body |-> None] :
        w \in {"network", "timeout"}}
    \cup {[kind |-> "response", why |-> "none", status |-> Some(st), body |-> Some(b)] :
            st \in {200, 201, 404, 429, 500}, b \in Bodies}

CurlAnswers ==
    {[kind |-> "rejected", stdout |-> None, stderr |-> <<>>]}
    \cup {[kind |-> "exited", stdout |-> so, stderr |-> se] :
            so \in {None} \cup {Some(b) : b \in Bodies},
            se \in {<<>>, <<"n", "o", "t", "e">>, <<"E", "r", "r", "o", "r">>,
                    <<"c", "u", "r", "l", " ", "F", "A", "I", "L", "e", "d">>}}

\* formatHeadersForCurl
RECURSIVE HeaderArgs(_)
HeaderArgs(entries) ==
    IF entries = <<>> THEN <<>>
    ELSE <<"-H", <<Head(entries).key, ": ", Head(entries).value>>>> \o HeaderArgs(Tail(entries))

formatHeadersForCurl(headers) == IF headers = None THEN <<>> ELSE HeaderArgs(headers[1])

CurlArgs(headers, url) ==
    <<"-s", "-S", "--fail-with-body", "-L", "--max-time", "60">>
        \o formatHeadersForCurl(headers) \o <<url>>

\* the body of the outer try: the value returned, or the error thrown inside it
PrimaryTry(answer) ==
    IF answer.kind = "transport"
    THEN [ok |-> FALSE, value |-> None, error |-> Some(TransportError(answer.why))]
    ELSE IF ~ResponseOk(answer.status[1])
    THEN [ok |-> FALSE, value |-> None, error |-> Some(HttpError(answer.status[1]))]
    ELSE IF JsonParse(answer.body[1]) = None
    THEN [ok |-> FALSE, value |-> None, error |-> Some(BodyError)]
    ELSE [ok |-> TRUE, value |-> JsonParse(answer.body[1]), error |-> None]

\* result.status && result.status !== 200 (a status of 0 is falsy)
BodyStatusIgnored(result) == FALSE
BodyStatusFails(result) ==
    result.status # None /\ result.status[1] # 0 /\ result.status[1] # 200

\* the body of the inner try: the value returned, or the error thrown inside it
CurlTry(answer) ==
    IF answer.kind = "rejected"
    THEN [ok |-> FALSE, value |-> None, error |-> Some(CurlError("process"))]
    ELSE IF /\ answer.stderr # <<>>
            /\ \/ answer.stdout = None
               \/ Includes(StrLower(answer.stderr), <<"e", "r", "r", "o", "r">>)
               \/ Includes(StrLower(answer.stderr), <<"f", "a", "i", "l">>)
    THEN [ok |-> FALSE, value |-> None, error |-> Some(CurlError("stderr"))]
    ELSE IF answer.stdout = None
    THEN [ok |-> FALSE, value |-> None, error |-> Some(CurlError("empty"))]
    ELSE IF JsonParse(answer.stdout[1]) = None
    THEN [ok |-> FALSE, value |-> None, error |-> Some(CurlError("json"))]
    ELSE LET result == JsonParse(answer.stdout[1])[1] IN
         IF result.kind = "null"
         THEN \* result.status on null throws a TypeError
              [ok |-> FALSE, value |-> None, error |-> Some(CurlError("type"))]
         ELSE IF BodyStatusFails(result)
         THEN [ok |-> FALSE, value |-> None, error |-> Some(CurlError("status"))]
         ELSE [ok |-> TRUE, value |-> Some(result), error |-> None]

\* the catch of the inner try: what fetchWithRetry throws when the fallback failed
CurlCatchThrowsCurlError(fetchError, curlError) == curlError
CurlCatch(fetchError, curlError) == fetchError

FetchInit ==
    /\ job \in [headers : {None, Some(<<[key |-> "X-Figma-Token", value |-> "t"]>>)},
                primary : PrimaryAnswers, curl : CurlAnswers]
    /\ jr = [pc |-> "fetch", fetches |-> 1, curls |-> 0, curlArgs |-> None, fetchError |-> None,
             result |-> None, error |-> None]
    /\ design = MakeDesign(<<>>, 0, TreeFlat)
    /\ design0 = design
    /\ env = [region |-> TRUE, bucketName |-> TRUE, accessKeyId |-> TRUE,
              secretAccessKey |-> TRUE]
    /\ entry = "fetchWithRetry"
    /\ downloadImages = FALSE
    /\ pc = "fetchWithRetry"
    /\ imageFills = <<>>
    /\ svgNodeIds = <<>>
    /\ fillUrls = None
    /\ svgUrls = None
    /\ downloadJobs = <<>>
    /\ jobPc = <<>>
    /\ urlMap = <<>>
    /\ net = NoNet
    /\ response = "none"

\* the primary fetch settles; the call returns, or catches and starts curl
FwrPrimary ==
    /\ pc = "fetchWithRetry"
    /\ jr.pc = "fetch"
    /\ LET r == PrimaryTry(job.primary) IN
       IF r.ok
       THEN jr' = [jr EXCEPT !.pc = "returned", !.result = r.value]
       ELSE jr' = [jr EXCEPT !.pc = "curl",
                             !.fetchError = r.error,
                             !.curlArgs = Some(CurlArgs(job.headers, "url")),
                             !.curls = @ + 1]
    /\ UNCHANGED <<pipeVars, job>>

\* curl settles; the call returns its result, or catches and throws
FwrCurl ==
    /\ pc = "fetchWithRetry"
    /\ jr.pc = "curl"
    /\ LET r == CurlTry(job.curl) IN
       IF r.ok
       THEN jr' = [jr EXCEPT !.pc = "returned", !.result = r.value]
       ELSE jr' = [jr EXCEPT !.pc = "threw",
                             !.error = Some(CurlCatch(jr.fetchError[1], r.error[1]))]
    /\ UNCHANGED <<pipeVars, job>>

FetchNext == FwrPrimary \/ FwrCurl

SpecFetch == FetchInit /\ [][FetchNext]_vars

(***************************************************************************)
(* download_figma_images (the tool handler downloadFigmaImages) and        *)
(* FigmaService.downloadAndUploadImages.  job holds the request and what   *)
(* the network will answer; jr the pc and locals of the two functions.     *)
(* A file name is its stem's characters followed by its extension token.   *)
(***************************************************************************)
\* nodeId.replace(/-/g, ":")
ReplaceDashes(s) == [i \in 1..Len(s) |-> IF s[i] = "-" THEN ":" ELSE s[i]]

\* the characters of a file name
ExtChars(tok) ==
    IF tok = ".png" THEN <<".", "p", "n", "g">>
    ELSE IF tok = ".svg" THEN <<".", "s", "v", "g">>
    ELSE <<tok>>
NameChars(fileName) ==
    IF fileName = <<>> THEN <<>>
    ELSE SubSeq(fileName, 1, Len(fileName) - 1) \o ExtChars(fileName[Len(fileName)])

\* the file name with the suffix put before its extension, unless the name
\* already includes the suffix
FinalFileName(fileName, filenameSuffix) ==
    IF TruthyStr(filenameSuffix) /\ ~Includes(NameChars(fileName), filenameSuffix[1])
    THEN SubSeq(fileName, 1, Len(fileName) - 1) \o <<"-">> \o filenameSuffix[1]
             \o <<fileName[Len(fileName)]>>
    ELSE fileName

\* `${node.imageRef}-${node.filenameSuffix || "none"}`
ToolUniqueKey(node) ==
    node.imageRef[1] \o <<"-">>
        \o (IF TruthyStr(node.filenameSuffix) THEN node.filenameSuffix[1]
            ELSE <<"n", "o", "n", "e">>)

\* a node of the request, after parametersSchema.parse
Request(nodeId, imageRef, fileName, crop, transform, dims, suffix) ==
    [nodeId |-> nodeId, imageRef |-> imageRef, fileName |-> fileName,
     needsCropping |-> crop, cropTransform |-> transform,
     requiresImageDimensions |-> dims, filenameSuffix |-> suffix]

RequestSamples ==
    {Request(<<"1", "-", "1">>, Some(<<"r", "1">>), <<"a", ".png">>, None, None, None, None),
     Request(<<"1", "-", "2">>, Some(<<"r", "1">>), <<"b", ".png">>, None, None, Some(TRUE),
             None),
     Request(<<"1", "-", "3">>, Some(<<"r", "2">>), <<"c", ".png">>, Some(FALSE), None, None,
             None),
     Request(<<"1", "-", "1">>, Some(<<"r", "1">>), <<"a", ".png">>, Some(TRUE),
             Some(HalfCrop), Some(TRUE), Some(<<"x">>)),
     Request(<<"1", "-", "5">>, None, <<"n", ".png">>, None, None, None, None),
     Request(<<"1", ":", "2">>, None, <<"v", ".svg">>, None, None, None, None)}

\* the planning state before the loop over nodes
PlanStart == [downloadItems |-> <<>>, downloadToRequests |-> <<>>, seenDownloads |-> <<>>]

\* one iteration of the loop over nodes; download indexes count from 0
PlanNode(plan, rawNode) ==
    LET nodeId == ReplaceDashes(rawNode.nodeId)
        finalFileName == FinalFileName(rawNode.fileName, rawNode.filenameSuffix)
        downloadItem ==
            [fileName |-> finalFileName,
             needsCropping |-> OrElse(rawNode.needsCropping, FALSE),
             cropTransform |-> rawNode.cropTransform,
             requiresImageDimensions |-> OrElse(rawNode.requiresImageDimensions, FALSE),
             imageRef |-> None, nodeId |-> None]
        downloadIndex == Len(plan.downloadItems)
    IN IF TruthyStr(rawNode.imageRef)
       THEN LET uniqueKey == ToolUniqueKey(rawNode) IN
            IF ~TruthyStr(rawNode.filenameSuffix) /\ MapHas(plan.seenDownloads, uniqueKey)
            THEN LET seen == MapGet(plan.seenDownloads, uniqueKey)[1]
                     requests == MapGet(plan.downloadToRequests, seen)[1]
                 IN [plan EXCEPT
                        !.downloadToRequests =
                            MapSet(@, seen,
                                   IF finalFileName \in Range(requests) THEN requests
                                   ELSE Append(requests, finalFileName)),
                        !.downloadItems =
                            IF downloadItem.requiresImageDimensions
                            THEN [@ EXCEPT ![seen + 1].requiresImageDimensions = TRUE]
                            ELSE @]
            ELSE [downloadItems |->
                      Append(plan.downloadItems, [downloadItem EXCEPT !.imageRef = rawNode.imageRef]),
                  downloadToRequests |->
                      MapSet(plan.downloadToRequests, downloadIndex, <<finalFileName>>),
                  seenDownloads |-> MapSet(plan.seenDownloads, uniqueKey, downloadIndex)]
       ELSE [plan EXCEPT
                !.downloadItems = Append(@, [downloadItem EXCEPT !.nodeId = Some(nodeId)]),
                !.downloadToRequests = MapSet(@, downloadIndex, <<finalFileName>>)]

RECURSIVE PlanNodes(_, _)
PlanNodes(plan, nodes) ==
    IF nodes = <<>> THEN plan ELSE PlanNodes(PlanNode(plan, Head(nodes)), Tail(nodes))

\* items.filter(pred), keeping each item's index in items (history) with it
RECURSIVE FilterItems(_, _, _)
FilterItems(items, i, kind) ==
    IF i > Len(items) THEN <<>>
    ELSE (IF \/ kind = "fill" /\ TruthyStr(items[i].imageRef)
             \/ kind = "node" /\ TruthyStr(items[i].nodeId)
             \/ kind = "png" /\ TruthyStr(items[i].nodeId) /\ ~IsSvgName(items[i].fileName)
             \/ kind = "svg" /\ TruthyStr(items[i].nodeId) /\ IsSvgName(items[i].fileName)
          THEN <<[item |-> items[i], index |-> i]>> ELSE <<>>)
         \o FilterItems(items, i + 1, kind)

\* the loops that push a download job for every item whose URL the response holds;
\* item is history: the index in items of the item a job was made for
RECURSIVE PushJobs(_, _, _, _)
PushJobs(jobs, picked, urls, kind) ==
    IF picked = <<>> THEN jobs
    ELSE LET it == Head(picked).item
             imageUrl == MapGet(urls, IF kind = "fill" THEN it.imageRef[1] ELSE it.nodeId[1])
         IN PushJobs(IF TruthyStr(imageUrl)
                     THEN Append(jobs, [fileName |-> it.fileName,
                                        imageUrl |-> imageUrl[1],
                                        needsCropping |-> it.needsCropping,
                                        cropTransform |-> it.cropTransform,
                                        requiresImageDimensions |-> it.requiresImageDimensions,
                                        item |-> Head(picked).index])
                     ELSE jobs,
                     Tail(picked), urls, kind)

\* the references of the picked items, in order
RECURSIVE RefsOfPicked(_, _)
RefsOfPicked(picked, kind) ==
    IF picked = <<>> THEN <<>>
    ELSE <<IF kind = "fill" THEN Head(picked).item.imageRef[1] ELSE Head(picked).item.nodeId[1]>>
         \o RefsOfPicked(Tail(picked), kind)

\* the image every download of the tool harness yields
ToolImage == [readable |-> TRUE, width |-> MaxDim, height |-> MaxDim]

\* what a job's body returns when its download, extract and upload succeed
UploadedImageOf(j, dj, image) ==
    LET originalDimensions == getBufferDimensions(Original, image)
        isSvg == IsSvgName(dj.fileName)
        c == ComputeCrop(dj.cropTransform[1], image.width, image.height)
        cropRegion == IF ~isSvg /\ dj.needsCropping /\ dj.cropTransform # None
                         /\ image.readable /\ ~InvalidCrop(c)
                      THEN Some(c) ELSE None
        buffer == IF cropRegion # None THEN Extracted(c) ELSE Original
        finalDimensions == IF isSvg THEN originalDimensions
                           ELSE getBufferDimensions(buffer, image)
    IN [fileName |-> dj.fileName,
        s3Url |-> S3Url(j, dj.fileName),
        dimensions |-> finalDimensions,
        wasCropped |-> WasCropped(cropRegion),
        cssVariables |-> IF dj.requiresImageDimensions
                         THEN Some(generateImageCSSVariables(finalDimensions)) ELSE None]

\* the loop over the settled results: the values of the fulfilled jobs, in job order
RECURSIVE SuccessfulResults(_, _, _)
SuccessfulResults(jobs, failed, j) ==
    IF j > Len(jobs) THEN <<>>
    ELSE (IF j \in failed THEN <<>> ELSE <<UploadedImageOf(j, jobs[j], ToolImage)>>)
         \o SuccessfulResults(jobs, failed, j + 1)

\* names.filter(name => name !== fileName)
RECURSIVE WithoutName(_, _)
WithoutName(names, fileName) ==
    IF names = <<>> THEN <<>>
    ELSE (IF Head(names) # fileName THEN <<Head(names)>> ELSE <<>>)
         \o WithoutName(Tail(names), fileName)

\* uploadedImages.map((img, index) => ...); index counts from 0
ImagesOutput(uploadedImages, downloadToRequests) ==
    [k \in 1..Len(uploadedImages) |->
        LET img == uploadedImages[k]
            requestedNames == OrElse(MapGet(downloadToRequests, k - 1), <<img.fileName>>)
        IN [fileName |-> img.fileName,
            s3Url |-> img.s3Url,
            dimensions |-> img.dimensions,
            wasCropped |-> img.wasCropped,
            cssVariables |-> img.cssVariables,
            aliases |-> IF Len(requestedNames) > 1
                        THEN Some(WithoutName(requestedNames, img.fileName)) ELSE None]]

ToolInit ==
    /\ job \in [nodes : SeqsUpTo(RequestSamples, MaxNodes)]
    /\ jr = [pc |-> "start", plan |-> PlanStart, downloadJobs |-> <<>>, failed |-> {},
             fillRefs |-> {}, nodeRefs |-> {},
             fillUrlRequests |-> 0, pngUrlRequests |-> 0, svgUrlRequests |-> 0, downloads |-> 0,
             uploadedImages |-> <<>>,
             response |-> [isError |-> FALSE, success |-> FALSE, totalUploaded |-> 0,
                           images |-> <<>>]]
    /\ env \in {[region |-> TRUE, bucketName |-> TRUE, accessKeyId |-> TRUE,
                 secretAccessKey |-> TRUE],
                [region |-> TRUE, bucketName |-> TRUE, accessKeyId |-> TRUE,
                 secretAccessKey |-> FALSE],
                [region |-> FALSE, bucketName |-> TRUE, accessKeyId |-> TRUE,
                 secretAccessKey |-> TRUE]}
    /\ design = MakeDesign(<<>>, 0, TreeFlat)
    /\ design0 = design
    /\ entry = "downloadFigmaImages"
    /\ downloadImages = FALSE
    /\ pc = "downloadFigmaImages"
    /\ imageFills = <<>>
    /\ svgNodeIds = <<>>
    /\ fillUrls = None
    /\ svgUrls = None
    /\ downloadJobs = <<>>
    /\ jobPc = <<>>
    /\ urlMap = <<>>
    /\ net = NoNet
    /\ response = "none"

\* the catch of downloadFigmaImages
ToolCaught(r) ==
    [r EXCEPT !.pc = "done",
              !.response = [isError |-> TRUE, success |-> FALSE, totalUploaded |-> 0,
                            images |-> <<>>]]

\* downloadAndUploadImages moves on to its next await: the next non-empty class of
\* items after `after`, or the start of the jobs
DauAdvance(r, after) ==
    LET items == r.plan.downloadItems
        hasPng == FilterItems(items, 1, "png") # <<>>
        hasSvg == FilterItems(items, 1, "svg") # <<>>
    IN IF after = "entry" /\ FilterItems(items, 1, "fill") # <<>>
       THEN [r EXCEPT !.pc = "await_fill_urls", !.fillUrlRequests = @ + 1]
       ELSE IF after \in {"entry", "fill"} /\ hasPng
       THEN [r EXCEPT !.pc = "await_png_urls", !.pngUrlRequests = @ + 1]
       ELSE IF after \in {"entry", "fill", "png"} /\ hasSvg
       THEN [r EXCEPT !.pc = "await_svg_urls", !.svgUrlRequests = @ + 1]
       ELSE [r EXCEPT !.pc = "jobs", !.downloads = Len(r.downloadJobs)]

\* downloadFigmaImages from its entry to the first await inside downloadAndUploadImages
ToolCall ==
    /\ pc = "downloadFigmaImages"
    /\ jr.pc = "start"
    /\ LET planned == [jr EXCEPT !.plan = PlanNodes(PlanStart, job.nodes)] IN
       IF Len(planned.plan.downloadItems) = 0
       THEN jr' = [planned EXCEPT !.pc = "respond"]
       ELSE IF getS3ConfigFromEnv(env) = None
       THEN jr' = ToolCaught(planned)
       ELSE jr' = DauAdvance(planned, "entry")
    /\ UNCHANGED <<pipeVars, job>>

\* getImageFillUrls settles
DauFillUrls ==
    /\ pc = "downloadFigmaImages"
    /\ jr.pc = "await_fill_urls"
    /\ LET picked == FilterItems(jr.plan.downloadItems, 1, "fill")
           refs == RefsOfPicked(picked, "fill")
       IN \/ jr' = ToolCaught(jr)
          \/ \E K \in SUBSET Range(refs) :
                jr' = DauAdvance(
                          [jr EXCEPT !.downloadJobs =
                                         PushJobs(@, picked, ObjectOver(refs, K), "fill"),
                                     !.fillRefs = K],
                          "fill")
    /\ UNCHANGED <<pipeVars, job>>

\* getNodeRenderUrls(..., "png") settles
DauPngUrls ==
    /\ pc = "downloadFigmaImages"
    /\ jr.pc = "await_png_urls"
    /\ LET picked == FilterItems(jr.plan.downloadItems, 1, "png")
           refs == RefsOfPicked(picked, "png")
       IN \/ jr' = ToolCaught(jr)
          \/ \E K \in SUBSET Range(refs) :
                jr' = DauAdvance(
                          [jr EXCEPT !.downloadJobs =
                                         PushJobs(@, picked,
                                                  filterValidImages(ResponseOver(refs, K)), "png"),
                                     !.nodeRefs = @ \cup K],
                          "png")
    /\ UNCHANGED <<pipeVars, job>>

\* getNodeRenderUrls(..., "svg") settles
DauSvgUrls ==
    /\ pc = "downloadFigmaImages"
    /\ jr.pc = "await_svg_urls"
    /\ LET picked == FilterItems(jr.plan.downloadItems, 1, "svg")
           refs == RefsOfPicked(picked, "svg")
       IN \/ jr' = ToolCaught(jr)
          \/ \E K \in SUBSET Range(refs) :
                jr' = DauAdvance(
                          [jr EXCEPT !.downloadJobs =
                                         PushJobs(@, picked,
                                                  filterValidImages(ResponseOver(refs, K)), "svg"),
                                     !.nodeRefs = @ \cup K],
                          "svg")
    /\ UNCHANGED <<pipeVars, job>>

\* Promise.allSettled resolves, the jobs in `failed` rejected and the others
\* fulfilled; downloadAndUploadImages returns the successful results
DauSettle ==
    /\ pc = "downloadFigmaImages"
    /\ jr.pc = "jobs"
    /\ \E failed \in SUBSET (1..Len(jr.downloadJobs)) :
          jr' = [jr EXCEPT !.pc = "respond",
                           !.failed = failed,
                           !.uploadedImages = SuccessfulResults(jr.downloadJobs, failed, 1)]
    /\ UNCHANGED <<pipeVars, job>>

\* downloadFigmaImages builds its response from uploadedImages
ToolRespond ==
    /\ pc = "downloadFigmaImages"
    /\ jr.pc = "respond"
    /\ jr' = [jr EXCEPT !.pc = "done",
                        !.response =
                            [isError |-> FALSE, success |-> TRUE,
                             totalUploaded |-> Len(jr.uploadedImages),
                             images |-> ImagesOutput(jr.uploadedImages,
                                                     jr.plan.downloadToRequests)]]
    /\ UNCHANGED <<pipeVars, job>>

ToolNext == ToolCall \/ DauFillUrls \/ DauPngUrls \/ DauSvgUrls \/ DauSettle \/ ToolRespond

SpecTool == ToolInit /\ [][ToolNext]_vars

(***************************************************************************)
(* Style Registry: one traversal interning a sequence of style payloads    *)
(* into globalVars.styles.  The registry's type is declared in             *)
(* extractors/types (GlobalVars); intern itself follows the contract       *)
(* `intern(payload) -> key` of the design document, section 4.2.           *)
(*   job : the payload objects the extractors hand to intern, in order;    *)
(*         a payload object has an identity `obj` and a value `value`      *)
(*   jr  : [pc, styles, calls]; styles is globalVars.styles as a Map       *)
(*         key -> payload object, calls the keys returned so far           *)
(***************************************************************************)

\* two objects per value: equal by value, different by identity
PayloadObjects ==
    [obj : {1, 2},
     value : {OtherStyle, FillList(<<SolidFill>>), FillList(<<FillA>>),
              FillList(<<FillA, SolidFill>>)}]

\* value-equality of payloads (not identity)
SameObject(a, b) == a = b
SamePayload(a, b) == a.value = b.value

\* the key the registry holds for a payload, if any
FindVar(styles, payload) ==
    LET hits == SelectSeq(styles, LAMBDA e : SamePayload(e.value, payload)) IN
    IF hits = <<>> THEN None ELSE Some(hits[1].key)

InternInit ==
    /\ job \in [payloads : SeqsUpTo(PayloadObjects, MaxInterns)]
    /\ jr = [pc |-> "traversing", styles |-> <<>>, calls |-> <<>>]
    /\ design = MakeDesign(<<>>, 0, TreeFlat)
    /\ design0 = design
    /\ env = [region |-> TRUE, bucketName |-> TRUE, accessKeyId |-> TRUE,
              secretAccessKey |-> TRUE]
    /\ entry = "intern"
    /\ downloadImages = FALSE
    /\ pc = "intern"
    /\ imageFills = <<>>
    /\ svgNodeIds = <<>>
    /\ fillUrls = None
    /\ svgUrls = None
    /\ downloadJobs = <<>>
    /\ jobPc = <<>>
    /\ urlMap = <<>>
    /\ net = NoNet
    /\ response = "none"

\* intern(payload): the existing key of an equal payload, else a new entry under a
\* key that is not in the registry
Intern ==
    /\ pc = "intern"
    /\ jr.pc = "traversing"
    /\ Len(jr.calls) < Len(job.payloads)
    /\ LET payload == job.payloads[Len(jr.calls) + 1]
           found == FindVar(jr.styles, payload) IN
       IF found # None
       THEN jr' = [jr EXCEPT !.calls = Append(@, found[1])]
       ELSE \E key \in {<<"v", n>> : n \in 1..MaxInterns} :
               /\ ~MapHas(jr.styles, key)
               /\ jr' = [jr EXCEPT !.styles = Append(@, [key |-> key, value |-> payload]),
                                   !.calls = Append(@, key)]
    /\ UNCHANGED <<pipeVars, job>>

\* the traversal returns its design with the registry
InternDone ==
    /\ pc = "intern"
    /\ jr.pc = "traversing"
    /\ Len(jr.calls) = Len(job.payloads)
    /\ jr' = [jr EXCEPT !.pc = "returned"]
    /\ UNCHANGED <<pipeVars, job>>

InternNext == Intern \/ InternDone

SpecIntern == InternInit /\ [][InternNext]_vars

(***************************************************************************)
(* Traversal Engine: simplify(sourceRoot, extractors, options).  The       *)
(* option and callback types are declared in extractors/types              *)
(* (TraversalOptions, ExtractorFn, TraversalContext); the walk itself      *)
(* follows the algorithm of the design document, section 4.1.              *)
(*   job : [root, extractors, options] of one simplify call                *)
(*   jr  : [pc, nodes]; nodes is the simplified forest the call returned   *)
(***************************************************************************)
SourceNode(id, type, children) == [id |-> id, type |-> type, children |-> children]

SourceTrees ==
    {SourceNode("0:1", "FRAME", <<>>),
     SourceNode("0:1", "FRAME",
         <<SourceNode("1:1", "FRAME",
               <<SourceNode("2:1", "GROUP", <<SourceNode("3:1", "VECTOR", <<>>)>>),
                 SourceNode("2:2", "TEXT", <<>>)>>),
           SourceNode("1:2", "TEXT", <<>>)>>),
     SourceNode("0:1", "FRAME",
         <<SourceNode("1:1", "GROUP",
               <<SourceNode("2:1", "VECTOR", <<>>), SourceNode("2:2", "VECTOR", <<>>)>>),
           SourceNode("1:2", "RECTANGLE", <<>>)>>)}

\* the extractor functions a caller can list, each writing its own field
ExtractorFns == {"layoutExtractor", "textExtractor", "visualsExtractor"}

TraversalOptions ==
    [maxDepth : {None} \cup {Some(d) : d \in 0..MaxDepthArg},
     nodeFilter : {None} \cup {Some(f) : f \in {{}, {"TEXT"}, {"FRAME"}}},
     afterChildren : {None} \cup {Some(h) : h \in {"collapseSvgContainers", "reverseChildren"}}]

SimplifiedNode(id, type, fields, children) ==
    [id |-> id, type |-> type, fields |-> fields, children |-> children]

\* (1) nodeFilter: a rejected node's subtree is skipped
shouldProcessNode(node, options) ==
    options.nodeFilter = None \/ node.type \notin options.nodeFilter[1]

\* (3) the extractors run in list order on the in-progress node
RECURSIVE runExtractors(_, _, _)
runExtractors(node, result, extractors) ==
    IF extractors = <<>> THEN result
    ELSE runExtractors(node,
                       [result EXCEPT !.fields = Append(@, [by |-> Head(extractors),
                                                            of |-> node.id])],
                       Tail(extractors))

\* (4) "if depth allows": no descent from a node at the cutoff
shouldTraverseChildrenInclusive(depth, options) ==
    options.maxDepth = None \/ depth <= options.maxDepth[1]
shouldTraverseChildren(depth, options) ==
    options.maxDepth = None \/ depth < options.maxDepth[1]

Reverse(s) == [i \in 1..Len(s) |-> s[Len(s) + 1 - i]]

\* the post-children hook: [result, children] it leaves
afterChildren(options, node, result, children) ==
    IF options.afterChildren = None
    THEN [result |-> result, children |-> children]
    ELSE IF options.afterChildren[1] = "collapseSvgContainers"
    THEN IF \A i \in 1..Len(node.children) : node.children[i].type = "VECTOR"
         THEN [result |-> [result EXCEPT !.type = "IMAGE-SVG"], children |-> <<>>]
         ELSE [result |-> result, children |-> children]
    ELSE [result |-> result, children |-> Reverse(children)]

\* one source node at currentDepth = depth: the simplified node, or nothing
RECURSIVE processNode(_, _, _, _)
processNode(node, depth, extractors, options) ==
    IF ~shouldProcessNode(node, options) THEN <<>>
    ELSE LET seeded == SimplifiedNode(node.id, node.type, <<>>, None)
             result == runExtractors(node, seeded, extractors)
         IN  IF shouldTraverseChildren(depth, options) /\ node.children # <<>>
             THEN LET RECURSIVE kids(_)
                      kids(i) ==
                          IF i > Len(node.children) THEN <<>>
                          ELSE processNode(node.children[i], depth + 1, extractors, options)
                                   \o kids(i + 1)
                      final == afterChildren(options, node, result, kids(1))
                  IN  <<[final.result EXCEPT
                            !.children = IF final.children = <<>> THEN None
                                         ELSE Some(final.children)]>>
             ELSE <<result>>

simplify(root, extractors, options) == processNode(root, 0, extractors, options)

SimplifyInit ==
    /\ job \in [root : SourceTrees,
                extractors : SeqsUpTo(ExtractorFns, MaxExtractors),
                options : TraversalOptions]
    /\ jr = [pc |-> "start", nodes |-> <<>>]
    /\ design = MakeDesign(<<>>, 0, TreeFlat)
    /\ design0 = design
    /\ env = [region |-> TRUE, bucketName |-> TRUE, accessKeyId |-> TRUE,
              secretAccessKey |-> TRUE]
    /\ entry = "simplify"
    /\ downloadImages = FALSE
    /\ pc = "simplify"
    /\ imageFills = <<>>
    /\ svgNodeIds = <<>>
    /\ fillUrls = None
    /\ svgUrls = None
    /\ downloadJobs = <<>>
    /\ jobPc = <<>>
    /\ urlMap = <<>>
    /\ net = NoNet
    /\ response = "none"

Simplify ==
    /\ pc = "simplify"
    /\ jr.pc = "start"
    /\ jr' = [pc |-> "returned", nodes |-> simplify(job.root, job.extractors, job.options)]
    /\ UNCHANGED <<pipeVars, job>>

SimplifyNext == Simplify

SpecSimplify == SimplifyInit /\ [][SimplifyNext]_vars

(***************************************************************************)
(* Properties.                                                             *)
(***************************************************************************)
\* the unique key the specification gives an image fill
ExpectedKey(fill) ==
    IF fill.imageDownloadArguments # None /\ fill.imageDownloadArguments[1].filenameSuffix # None
    THEN fill.imageRef[1] \o <<"-">> \o fill.imageDownloadArguments[1].filenameSuffix[1]
    ELSE fill.imageRef[1]

HasRef(fill) == fill.type = "IMAGE" /\ fill.imageRef # None

\* the filenameSuffix of a fill (optional), and what it adds to the key
SuffixOf(fill) ==
    IF fill.imageDownloadArguments = None THEN None
    ELSE fill.imageDownloadArguments[1].filenameSuffix

SuffixText(fill) == IF SuffixOf(fill) = None THEN <<>> ELSE <<"-">> \o SuffixOf(fill)[1]

Fills0 == AllFillsOf(design0.styles)
FillsNow == AllFillsOf(design.styles)
Nodes0 == AllNodesOf(design0.nodes)
NodesNow == AllNodesOf(design.nodes)

JobsStarted == Len(jobPc) > 0
Fulfilled == {j \in 1..Len(jobPc) : jobPc[j] = "fulfilled"}
Failed == {j \in 1..Len(jobPc) : jobPc[j] = "rejected"}
Returned == pc = "pdi_returned" \/ (pc = "done" /\ response = "ok")
S3Absent == ~(env.region /\ env.bucketName /\ env.accessKeyId /\ env.secretAccessKey)

\* C1: once the jobs of a processDesignImages call run, whatever subset of them
\* fails, the call does not throw, and the UrlMap it returns has one entry per
\* job that succeeded, under that job's unique key: N - |F| entries.
C1_PartialFailureTolerated ==
    JobsStarted =>
        /\ pc # "pdi_threw"
        /\ response \notin {"image_error", "threw"}
        /\ Returned =>
              /\ Len(urlMap) = Len(downloadJobs) - Cardinality(Failed)
              /\ MapKeys(urlMap) = {downloadJobs[j].uniqueKey : j \in Fulfilled}
              /\ Cardinality(MapKeys(urlMap)) = Len(urlMap)

C1_Witness ==
    /\ pc = "pdi_returned"
    /\ Len(downloadJobs) >= 3
    /\ jobPc[2] = "rejected"
    /\ Cardinality(Fulfilled) = Len(downloadJobs) - 1
    /\ Len(urlMap) = Len(downloadJobs) - 1

\* C2: while the jobs run, every job that has not settled can take its next step
\* whatever the state of the others (a failed job blocks nobody), and
\* processDesignImages has returned only if every job has settled.
C2_JobsIndependent ==
    /\ pc = "jobs" =>
          \A j \in 1..Len(jobPc) :
              jobPc[j] \notin {"fulfilled", "rejected"} => ENABLED JobStep(j)
    /\ (JobsStarted /\ pc \in {"pdi_returned", "done"}) =>
          \A j \in 1..Len(jobPc) : jobPc[j] \in {"fulfilled", "rejected"}

C2_Witness ==
    /\ pc = "jobs"
    /\ \E i, j \in 1..Len(jobPc) :
          /\ jobPc[i] = "rejected"
          /\ jobPc[j] = "upload"
          /\ ENABLED JobStep(j)

\* C3: a work item (or vector node) whose reference has no URL in the batch
\* response gets no download job and no UrlMap entry, and after injection its
\* fills (its node) are as they were; every other work item still gets its job,
\* which has run when the call returns.
C3_UnresolvedDropped ==
    /\ fillUrls # None =>
          \A i \in 1..Len(imageFills) :
              LET key == imageFills[i].key
                  resolved == MapHas(fillUrls[1], imageFills[i].value.imageRef)
                  jobsOfKey == {j \in 1..Len(downloadJobs) : downloadJobs[j].uniqueKey = key}
              IN IF resolved
                 THEN /\ jobsOfKey # {}
                      /\ (JobsStarted /\ Returned) =>
                            \A j \in jobsOfKey : jobPc[j] \in {"fulfilled", "rejected"}
                 ELSE /\ jobsOfKey = {}
                      /\ ~MapHas(urlMap, key)
                      /\ \A p \in 1..Len(Fills0) :
                            (HasRef(Fills0[p]) /\ ExpectedKey(Fills0[p]) = key)
                                => FillsNow[p] = Fills0[p]
    /\ svgUrls # None =>
          \A i \in 1..Len(svgNodeIds) :
              LET id == svgNodeIds[i]
                  jobsOfKey == {j \in 1..Len(downloadJobs) : downloadJobs[j].uniqueKey = id}
              IN IF MapHas(svgUrls[1], id)
                 THEN jobsOfKey # {}
                 ELSE /\ jobsOfKey = {}
                      /\ ~MapHas(urlMap, id)
                      /\ \A p \in 1..Len(Nodes0) :
                            Nodes0[p].id = id => NodesNow[p].imageUrl = None

C3_Witness ==
    /\ pc = "done"
    /\ net.injects = 1
    /\ fillUrls # None
    /\ \E i, k \in 1..Len(imageFills) :
          /\ ~MapHas(fillUrls[1], imageFills[i].value.imageRef)
          /\ MapHas(urlMap, imageFills[k].key)
          /\ \E p \in 1..Len(Fills0) :
                /\ HasRef(Fills0[p]) /\ ExpectedKey(Fills0[p]) = imageFills[i].key
                /\ FillsNow[p].imageRef # None
                /\ FillsNow[p].imageDownloadArguments # None

\* C4: with any of the four storage values absent, no URL-resolution, download
\* or upload request is ever issued, processDesignImages returns an empty
\* UrlMap, and get_figma_data with downloadImages = true answers without an
\* error, the design unmodified.
C4_NoStorageSkipsImages ==
    S3Absent =>
        /\ net.fillUrlRequests = 0 /\ net.svgUrlRequests = 0
        /\ net.downloads = <<>> /\ net.uploads = <<>>
        /\ urlMap = <<>>
        /\ design = design0
        /\ pc \notin {"pdi_threw", "await_fill_urls", "await_svg_urls", "jobs"}
        /\ (entry = "getFigmaData" /\ pc = "done" /\ response # "fetch_error")
              => response \in {"ok", "ok_image_warning"}
        /\ (entry = "processDesignImages" /\ pc = "done") => response = "ok"

C4_Witness ==
    /\ ~env.secretAccessKey /\ env.region /\ env.bucketName /\ env.accessKeyId
    /\ entry = "getFigmaData" /\ downloadImages
    /\ pc = "done"
    /\ response = "ok_image_warning"
    /\ \E p \in 1..Len(Fills0) : HasRef(Fills0[p])
    /\ \E p \in 1..Len(Nodes0) : Nodes0[p].type = "IMAGE-SVG"

\* every fill that had an imageRef carries the URL of its key and no imageRef
\* or imageDownloadArguments; every IMAGE-SVG node carries the URL of its id
AllInjected ==
    /\ \A p \in 1..Len(Fills0) :
          HasRef(Fills0[p]) =>
              /\ MapHas(urlMap, ExpectedKey(Fills0[p]))
              /\ FillsNow[p].imageUrl = MapGet(urlMap, ExpectedKey(Fills0[p]))
              /\ FillsNow[p].imageRef = None
              /\ FillsNow[p].imageDownloadArguments = None
    /\ \A p \in 1..Len(Nodes0) :
          Nodes0[p].type = "IMAGE-SVG" =>
              /\ MapHas(urlMap, Nodes0[p].id)
              /\ NodesNow[p].imageUrl = MapGet(urlMap, Nodes0[p].id)

EveryJobSucceeded ==
    /\ pc = "done"
    /\ response = "ok"
    /\ net.injects = 1
    /\ JobsStarted
    /\ \A j \in 1..Len(jobPc) : jobPc[j] = "fulfilled"

EveryItemResolved ==
    /\ Len(imageFills) > 0 =>
          /\ fillUrls # None
          /\ \A i \in 1..Len(imageFills) : MapHas(fillUrls[1], imageFills[i].value.imageRef)
    /\ Len(svgNodeIds) > 0 =>
          /\ svgUrls # None
          /\ \A i \in 1..Len(svgNodeIds) : MapHas(svgUrls[1], svgNodeIds[i])

\* C5 as stated: after collection, a run in which every job succeeds, and
\* injection, every fill that had an imageRef and every IMAGE-SVG node is resolved.
C5_Original == EveryJobSucceeded => AllInjected

\* C5 amended: the same, when moreover the batch responses held a URL for every
\* work item's imageRef and every vector node id.
C5_AllResolvedInjected == (EveryJobSucceeded /\ EveryItemResolved) => AllInjected

C5_Witness ==
    /\ EveryJobSucceeded /\ EveryItemResolved
    /\ entry = "getFigmaData"
    /\ \E p, q \in 1..Len(Fills0) :
          /\ p # q /\ HasRef(Fills0[p]) /\ HasRef(Fills0[q])
          /\ ExpectedKey(Fills0[p]) = ExpectedKey(Fills0[q])
          /\ FillsNow[p].imageUrl # None
          /\ FillsNow[p].imageUrl = FillsNow[q].imageUrl
    /\ \E p \in 1..Len(Nodes0) :
          Nodes0[p].type = "IMAGE-SVG" /\ NodesNow[p].imageUrl # None

\* C6: injectImageUrls with an empty UrlMap leaves the tree and the registry
\* exactly as they were.
C6_EmptyMapInjectsNothing == (urlMap = <<>> /\ net.injects >= 1) => design = design0

C6_Witness ==
    /\ urlMap = <<>>
    /\ net.injects >= 1
    /\ \E p \in 1..Len(FillsNow) :
          HasRef(FillsNow[p]) /\ FillsNow[p].imageDownloadArguments # None
    /\ \E p \in 1..Len(NodesNow) : NodesNow[p].type = "IMAGE-SVG"

\* C7: after collectImageReferences, every fill with an imageRef has a work item
\* under imageRef (no suffix) or imageRef-suffix (suffix), the work items are
\* exactly those, and two fills of one imageRef that differ in their suffix have
\* two different work items.
C7_KeyedByRefAndSuffix ==
    net.collects = 1 =>
        /\ MapKeys(imageFills)
              = {ExpectedKey(Fills0[p]) : p \in {q \in 1..Len(Fills0) : HasRef(Fills0[q])}}
        /\ Cardinality(MapKeys(imageFills)) = Len(imageFills)
        /\ \A p, q \in 1..Len(Fills0) :
              (/\ HasRef(Fills0[p]) /\ HasRef(Fills0[q])
               /\ Fills0[p].imageRef = Fills0[q].imageRef
               /\ SuffixOf(Fills0[p]) # SuffixOf(Fills0[q]))
                  => \E i, k \in 1..Len(imageFills) :
                        /\ i # k
                        /\ imageFills[i].key = Fills0[p].imageRef[1] \o SuffixText(Fills0[p])
                        /\ imageFills[k].key = Fills0[q].imageRef[1] \o SuffixText(Fills0[q])

C7_Witness ==
    /\ net.collects = 1
    /\ MapHas(imageFills, <<"a">>)
    /\ MapHas(imageFills, <<"a", "-", "b">>)
    /\ MapGet(imageFills, <<"a", "-", "b">>)[1].imageRef = <<"a">>
    /\ Len(imageFills) = 2

\* C8: no two download jobs of a call have the same unique key, and for every
\* key at most one download and at most one upload is ever issued, however many
\* fills or nodes refer to it.
C8_OncePerKey ==
    /\ \A i, j \in 1..Len(downloadJobs) :
          i # j => downloadJobs[i].uniqueKey # downloadJobs[j].uniqueKey
    /\ \A j \in 1..Len(net.downloads) :
          /\ net.downloads[j] <= 1
          /\ net.uploads[j] <= 1
          /\ Cardinality({i \in 1..Len(net.downloads) :
                 downloadJobs[i].uniqueKey = downloadJobs[j].uniqueKey /\ net.downloads[i] > 0}) <= 1
          /\ jobPc[j] = "fulfilled" => (net.downloads[j] = 1 /\ net.uploads[j] = 1)

C8_Witness ==
    /\ pc = "pdi_returned"
    /\ \E p, q \in 1..Len(Fills0) :
          /\ p # q /\ HasRef(Fills0[p]) /\ HasRef(Fills0[q])
          /\ ExpectedKey(Fills0[p]) = ExpectedKey(Fills0[q])
          /\ \E j \in Fulfilled :
                /\ downloadJobs[j].uniqueKey = ExpectedKey(Fills0[p])
                /\ net.downloads[j] = 1 /\ net.uploads[j] = 1
    /\ Len(svgNodeIds) = 2
    /\ Fulfilled = 1..Len(jobPc)
    /\ Len(jobPc) = 3

\* a transform with all of its 2 x 3 entries
FullTransform(t) == Len(t) = 2 /\ Len(t[1]) = 3 /\ Len(t[2]) = 3

\* the region the specification's formula gives for a W x H image; scaleX = t[1][1],
\* translateX = t[1][3], scaleY = t[2][2], translateY = t[2][3], each in units of 1/TUnit
ExpectedRegion(t, W, H) ==
    LET left == Max(0, MathRound(t[1][3] * W, TUnit))
        top == Max(0, MathRound(t[2][3] * H, TUnit))
    IN [left |-> left,
        top |-> top,
        width |-> Min(W - left, MathRound(t[1][1] * W, TUnit)),
        height |-> Min(H - top, MathRound(t[2][2] * H, TUnit))]

IdentityTransform(t) == t[1][1] = TUnit /\ t[2][2] = TUnit /\ t[1][3] = 0 /\ t[2][3] = 0

\* C9: once applyCropTransformToBuffer has read the size W x H of the image, the
\* region it computes from a transform is left = max(0, round(translateX * W)),
\* top = max(0, round(translateY * H)), width = min(W - left, round(scaleX * W)),
\* height = min(H - top, round(scaleY * H)), and a region it reports is that region;
\* for the identity transform the region is {0, 0, W, H} and is the one extracted;
\* for a transform with scaleX = 0 nothing is extracted and no region is reported.
C9_CropRegionFormula ==
    (jr.metadata # None /\ FullTransform(job.cropTransform[1])) =>
        LET t == job.cropTransform[1]
            W == jr.metadata[1].width
            H == jr.metadata[1].height
            e == ExpectedRegion(t, W, H)
        IN /\ jr.computed = Some(e)
           /\ jr.cropRegion # None => jr.cropRegion = Some(e)
           /\ IdentityTransform(t) =>
                 /\ e = [left |-> 0, top |-> 0, width |-> W, height |-> H]
                 /\ \/ jr.pc = "extract"
                    \/ jr.extractThrew
                    \/ jr.cropRegion = Some(e) /\ jr.buffer = Some(Extracted(e))
           /\ t[1][1] = 0 => jr.pc # "extract" /\ jr.cropRegion = None /\ ~jr.wasCropped

\* a job reported a region that starts inside the image, whose left edge came from
\* rounding a half and whose width was cut to what is left of the image
C9_Witness ==
    /\ jr.cropRegion # None
    /\ FullTransform(job.cropTransform[1])
    /\ jr.cropRegion[1].left > 0
    /\ (job.cropTransform[1][1][3] * job.image.width) % TUnit # 0
    /\ jr.cropRegion[1].width < MathRound(job.cropTransform[1][1][1] * job.image.width, TUnit)
    /\ jr.pc = "fulfilled"

\* the job called applyCropTransformToBuffer and that call has returned
CropAttempted ==
    /\ jr.pc \in {"finish", "upload", "fulfilled", "rejected"}
    /\ jr.buffer # None
    /\ ~IsSvgName(job.fileName)
    /\ job.needsCropping
    /\ job.cropTransform # None

\* the three cropping problems: unreadable metadata, a computed width or height <= 0,
\* a failed extract
MetadataProblem == CropAttempted /\ ~job.image.readable
DegenerateProblem ==
    /\ CropAttempted
    /\ job.image.readable
    /\ FullTransform(job.cropTransform[1])
    /\ LET e == ExpectedRegion(job.cropTransform[1], job.image.width, job.image.height)
       IN e.width <= 0 \/ e.height <= 0
ExtractProblem == CropAttempted /\ jr.extractThrew

\* C10: when the computed crop width or height is <= 0, or reading the metadata or
\* extracting the region throws, the job is not failed by it: it goes on with the
\* downloaded bytes, wasCropped is false, no cropRegion is reported, and the job goes
\* on to the upload, to which it gives the downloaded bytes.
C10_CropProblemNeverFails ==
    (MetadataProblem \/ DegenerateProblem \/ ExtractProblem) =>
        /\ jr.buffer = Some(Original)
        /\ jr.wasCropped = FALSE
        /\ jr.cropRegion = None
        /\ jr.pc = "finish" => ENABLED JobFinish
        /\ jr.pc # "finish" => jr.uploadArg = Some(Original)

\* a job whose extract threw was uploaded and fulfilled
C10_Witness ==
    /\ ExtractProblem
    /\ jr.pc = "fulfilled"
    /\ jr.uploadArg = Some(Original)

\* C11: when the primary request of fetchWithRetry receives a response with a
\* non-success HTTP status, curl is never started and the call ends by throwing an
\* error that carries that status and its status text.
C11_NoFallbackOnHttpFailure ==
    (job.primary.kind = "response" /\ ~(job.primary.status[1] \in 200..299)) =>
        /\ jr.curls = 0
        /\ jr.pc # "returned"
        /\ jr.pc = "threw" =>
              /\ jr.error[1].status = job.primary.status
              /\ jr.error[1].statusText = Some(StatusText(job.primary.status[1]))

\* what the primary request failed with, from what the network answered
PrimaryFailed ==
    \/ job.primary.kind = "transport"
    \/ ~(job.primary.status[1] \in 200..299)
    \/ job.primary.body[1].kind = "garbage"

FallbackFailed ==
    \/ job.curl.kind = "rejected"
    \/ job.curl.stdout = None
    \/ /\ job.curl.stderr # <<>>
       /\ job.curl.stderr # <<"n", "o", "t", "e">>
    \/ job.curl.stdout[1].kind \in {"garbage", "null"}
    \/ job.curl.stdout[1].status \in {Some(403)}

\* C12: when the primary request and the fallback both fail, whatever the fallback
\* failed with, fetchWithRetry throws, and the error it throws is the primary
\* request's; it throws in no other case.
C12_PrimaryErrorSurfaces ==
    /\ (jr.pc \in {"returned", "threw"} /\ PrimaryFailed /\ FallbackFailed) =>
          /\ jr.pc = "threw"
          /\ jr.error[1].from = "fetch"
          /\ job.primary.kind = "transport" => jr.error[1].kind = job.primary.why
          /\ (job.primary.kind = "response" /\ ~(job.primary.status[1] \in 200..299)) =>
                 (jr.error[1].kind = "http" /\ jr.error[1].status = job.primary.status)
    /\ jr.pc = "threw" => (PrimaryFailed /\ FallbackFailed)

\* a 404, then a fallback whose output carries an embedded failure status: the call
\* threw the 404
C12_Witness ==
    /\ jr.pc = "threw"
    /\ job.primary.status = Some(404)
    /\ job.curl.kind = "exited" /\ job.curl.stderr = <<>>
    /\ job.curl.stdout = Some(JsonObject(Some(403)))
    /\ jr.error[1].status = Some(404)

\* C13: download_figma_images called with a non-empty node list while a required
\* storage value is missing ends without an error and reports no uploaded asset.
C13_MissingStorageIsSkip ==
    (S3Absent /\ Len(job.nodes) > 0 /\ jr.pc = "done") =>
        /\ ~jr.response.isError
        /\ jr.response.success
        /\ jr.response.totalUploaded = 0
        /\ jr.response.images = <<>>

\* the download item (its index in downloadItems) that request i of the node list
\* is satisfied by: a new one, or the one already planned for its imageRef
ItemOfRequest(i) ==
    LET before == PlanNodes(PlanStart, SubSeq(job.nodes, 1, i - 1))
        after == PlanNodes(PlanStart, SubSeq(job.nodes, 1, i))
    IN IF Len(after.downloadItems) > Len(before.downloadItems)
       THEN Len(after.downloadItems)
       ELSE MapGet(before.seenDownloads, ToolUniqueKey(job.nodes[i]))[1] + 1

RequestedName(i) == FinalFileName(job.nodes[i].fileName, job.nodes[i].filenameSuffix)

\* the download items whose job was fulfilled
UploadedItems ==
    {jr.downloadJobs[j].item : j \in (1..Len(jr.downloadJobs)) \ jr.failed}

\* the entries of the response that report a file name, as the image's own or an alias
ReportsOf(name) ==
    {k \in 1..Len(jr.response.images) :
        \/ jr.response.images[k].fileName = name
        \/ /\ jr.response.images[k].aliases # None
           /\ name \in Range(jr.response.images[k].aliases[1])}

\* request i's file name is requested for no other download item
NameIsOwn(i) ==
    \A k \in 1..Len(job.nodes) :
        RequestedName(k) = RequestedName(i) => ItemOfRequest(k) = ItemOfRequest(i)

\* C14: in a response of download_figma_images that is no error, totalUploaded is
\* the number of assets uploaded, and a requested file name (one that names a single
\* download item) is reported, as an image's name or alias, exactly if its item was
\* uploaded, and then only by the entry that holds that item's URL.
C14_PartialFailureExplicit ==
    (jr.pc = "done" /\ ~jr.response.isError) =>
        /\ jr.response.totalUploaded = Cardinality(UploadedItems)
        /\ Len(jr.response.images) = jr.response.totalUploaded
        /\ \A i \in 1..Len(job.nodes) :
              NameIsOwn(i) =>
                  /\ ReportsOf(RequestedName(i)) # {} <=> ItemOfRequest(i) \in UploadedItems
                  /\ \A k \in ReportsOf(RequestedName(i)) :
                        \E j \in (1..Len(jr.downloadJobs)) \ jr.failed :
                            /\ jr.downloadJobs[j].item = ItemOfRequest(i)
                            /\ jr.response.images[k].s3Url
                                  = S3Url(j, jr.downloadJobs[j].fileName)

\* the ids of the IMAGE-SVG nodes among a list of nodes, in the list's order
RECURSIVE SvgIdsOf(_)
SvgIdsOf(nodes) ==
    IF nodes = <<>> THEN <<>>
    ELSE (IF Head(nodes).type = "IMAGE-SVG" THEN <<Head(nodes).id>> ELSE <<>>)
         \o SvgIdsOf(Tail(nodes))

\* C15: after collectImageReferences, svgNodeIds lists the ids of the IMAGE-SVG
\* nodes of the tree, at any depth, in pre-order, and no other id; for a design
\* with no image fill and no IMAGE-SVG node both results are empty.
C15_SvgIdsPreOrder ==
    net.collects = 1 =>
        /\ svgNodeIds = SvgIdsOf(Nodes0)
        /\ ((\A p \in 1..Len(Fills0) : ~HasRef(Fills0[p]))
               /\ (\A p \in 1..Len(Nodes0) : Nodes0[p].type # "IMAGE-SVG"))
              => (imageFills = <<>> /\ svgNodeIds = <<>>)

\* an IMAGE-SVG node, then its IMAGE-SVG child, then a later top-level IMAGE-SVG node
C15_Witness ==
    /\ net.collects = 1
    /\ svgNodeIds = <<Id13, Id15, Id12>>
    /\ \E p \in 1..Len(Nodes0) : Nodes0[p].type = "TEXT"

\* the payload object handed to the c-th intern call, and the key it returned
InternedPayload(c) == job.payloads[c]
InternedKey(c) == jr.calls[c]
InternCalls == 1..Len(jr.calls)

\* C16: during one traversal two structurally identical payloads intern to the same
\* key, two different payloads intern to different keys, and the key a payload was
\* registered under keeps naming that payload (never another one) for the rest of
\* the traversal.
C16_InternDedup ==
    pc = "intern" =>
        /\ \A a, b \in InternCalls :
              (InternedPayload(a).value = InternedPayload(b).value)
                  <=> (InternedKey(a) = InternedKey(b))
        /\ \A c \in InternCalls :
              /\ MapHas(jr.styles, InternedKey(c))
              /\ MapGet(jr.styles, InternedKey(c))[1].value = InternedPayload(c).value
        /\ \A i, j \in 1..Len(jr.styles) : jr.styles[i].key = jr.styles[j].key => i = j

\* an equal payload held by another object was interned after its twin and after a
\* different payload, and the traversal went on
C16_Witness ==
    /\ pc = "intern"
    /\ Len(jr.calls) = 3
    /\ InternedPayload(1).value = InternedPayload(3).value
    /\ InternedPayload(1).obj # InternedPayload(3).obj
    /\ InternedPayload(1).value # InternedPayload(2).value
    /\ InternedKey(1) = InternedKey(3)
    /\ InternedKey(1) # InternedKey(2)

\* the nodes of a simplified forest / of a source tree, each with its depth
RECURSIVE OutputAt(_, _)
OutputAt(nodes, depth) ==
    UNION {{[node |-> nodes[i], depth |-> depth]}
               \cup (IF nodes[i].children = None THEN {}
                     ELSE OutputAt(nodes[i].children[1], depth + 1)) : i \in 1..Len(nodes)}

RECURSIVE SourceAt(_, _)
SourceAt(node, depth) ==
    {[node |-> node, depth |-> depth]}
        \cup UNION {SourceAt(node.children[i], depth + 1) : i \in 1..Len(node.children)}

Emitted == OutputAt(jr.nodes, 0)
ExtractorFields(id) == [i \in 1..Len(job.extractors) |-> [by |-> job.extractors[i], of |-> id]]
Limited == job.options.maxDepth # None
PlainWalk == job.options.nodeFilter = None /\ job.options.afterChildren = None

\* C17: simplify with maxDepth = d emits no node deeper than d; an emitted node at
\* depth d carries the fields its extractors produced and has no children field;
\* when no filter or hook drops nodes, every source node down to depth d is
\* emitted; with maxDepth = 0 the output is the root alone, without children
\* (nothing at all when nodeFilter rejects the root).
C17_MaxDepthCutoff ==
    (pc = "simplify" /\ jr.pc = "returned" /\ Limited) =>
        LET d == job.options.maxDepth[1] IN
        /\ \A e \in Emitted : e.depth <= d
        /\ \A e \in Emitted :
              /\ e.node.fields = ExtractorFields(e.node.id)
              /\ e.depth = d => e.node.children = None
        /\ PlainWalk =>
              {[id |-> e.node.id, depth |-> e.depth] : e \in Emitted}
                  = {[id |-> s.node.id, depth |-> s.depth] :
                         s \in {t \in SourceAt(job.root, 0) : t.depth <= d}}
        /\ d = 0 =>
              jr.nodes = IF shouldProcessNode(job.root, job.options)
                         THEN <<SimplifiedNode(job.root.id, job.root.type,
                                               ExtractorFields(job.root.id), None)>>
                         ELSE <<>>

\* a tree deeper than the limit was cut: a node at the cutoff with source children
\* came out with its two extractor fields and no children
C17_Witness ==
    /\ pc = "simplify"
    /\ jr.pc = "returned"
    /\ Limited
    /\ Len(job.extractors) = 2
    /\ \E e \in Emitted, s \in SourceAt(job.root, 0) :
          /\ e.depth = job.options.maxDepth[1]
          /\ e.depth > 0
          /\ s.node.id = e.node.id
          /\ s.node.children # <<>>
          /\ e.node.children = None
          /\ e.node.fields = ExtractorFields(e.node.id)

\* processDesignImages is over: it returned or threw
PdiOver == pc \in {"pdi_returned", "pdi_threw", "done"}

\* C18: with storage configured the two sub-phases of processDesignImages are
\* independent: once the call is over, the fill URL request was issued exactly when
\* imageFills is non-empty and the render URL request exactly when svgNodeIds is
\* non-empty, whatever the other sub-phase's input was and whether or not its
\* request succeeded.
C18_SubPhasesIndependent ==
    (entry \in {"getFigmaData", "processDesignImages"} /\ PdiOver
        /\ getS3ConfigFromEnv(env) # None) =>
        /\ (net.fillUrlRequests > 0) <=> (Len(imageFills) > 0)
        /\ (net.svgUrlRequests > 0) <=> (Len(svgNodeIds) > 0)

\* the jobs whose body has begun, by class
StartedJobs == 1..Len(jobPc)
IsVectorJob(j) == IsSvgName(downloadJobs[j].fileName)
UrlRequestPending == pc \in {"await_fill_urls", "await_svg_urls"}

\* C19: within one processDesignImages call no step of an image-fill job begins
\* before the batched fill-URL request has returned and no step of a vector job
\* before the batched render-URL request has returned (a begun job downloads the
\* URL its class's response gave for it), and each class issues at most one batched
\* URL request.
C19_UrlsBeforeJobs ==
    entry \in {"getFigmaData", "processDesignImages"} =>
        /\ net.fillUrlRequests <= 1
        /\ net.svgUrlRequests <= 1
        /\ UrlRequestPending => (jobPc = <<>> /\ net.downloads = <<>> /\ net.uploads = <<>>)
        /\ \A j \in StartedJobs :
              IF IsVectorJob(j)
              THEN /\ net.svgUrlRequests = 1
                   /\ svgUrls # None
                   /\ MapGet(svgUrls[1], downloadJobs[j].uniqueKey)
                          = Some(downloadJobs[j].imageUrl)
              ELSE /\ net.fillUrlRequests = 1
                   /\ fillUrls # None
                   /\ MapGet(fillUrls[1],
                             MapGet(imageFills, downloadJobs[j].uniqueKey)[1].imageRef)
                          = Some(downloadJobs[j].imageUrl)

\* a fill job and a vector job are both under way, each after its class's request
C19_Witness ==
    /\ entry = "processDesignImages"
    /\ pc = "jobs"
    /\ \E j, k \in StartedJobs :
          /\ IsVectorJob(j) /\ ~IsVectorJob(k)
          /\ jobPc[j] = "upload" /\ jobPc[k] = "process"
    /\ net.fillUrlRequests = 1
    /\ net.svgUrlRequests = 1

\* C20: between the end of collectImageReferences and the return of
\* processDesignImages nobody writes the simplified tree or the style registry: the
\* design is still the collected one while jobs run, the UrlMap is filled only when
\* the pipeline returns with every job settled, and injectImageUrls then writes the
\* design once, from that map.
C20_NoWriteBeforeReturn ==
    entry \in {"getFigmaData", "processDesignImages"} =>
        /\ pc # "done" => (design = design0 /\ net.injects = 0)
        /\ urlMap # <<>> => pc \in {"pdi_returned", "done"}
        /\ net.injects <= 1
        /\ net.injects = 1 =>
              /\ pc = "done"
              /\ \A j \in StartedJobs : Settled(jobPc[j])
              /\ design = injectImageUrls(design0, urlMap)
        /\ net.injects = 0 => design = design0

\* getFigmaData wrote the design after a pipeline in which one job failed and
\* another succeeded
C20_Witness ==
    /\ entry = "getFigmaData"
    /\ pc = "done"
    /\ net.injects = 1
    /\ design # design0
    /\ Failed # {}
    /\ Fulfilled # {}

\* the first fill of the registry that has the unique key of fill p
FirstOfKey(p) ==
    CHOOSE q \in 1..p :
        /\ HasRef(Fills0[q]) /\ ExpectedKey(Fills0[q]) = ExpectedKey(Fills0[p])
        /\ \A r \in 1..(q - 1) :
              ~(HasRef(Fills0[r]) /\ ExpectedKey(Fills0[r]) = ExpectedKey(Fills0[p]))

\* C21: collectImageReferences never replaces a stored work item: the item of a key
\* carries the metadata of the first fill with that key, a later fill with the same
\* key and other metadata leaves it as it is, and that later fill is injected with
\* the key's one URL, the same the first fill gets.
C21_FirstOccurrenceWins ==
    (entry = "util" /\ net.collects = 1) =>
        \A p \in 1..Len(Fills0) :
            HasRef(Fills0[p]) =>
                LET f == FirstOfKey(p)
                    key == ExpectedKey(Fills0[p]) IN
                /\ MapGet(imageFills, key) = Some(FillInfo(Fills0[f]))
                /\ (net.injects >= 1 /\ MapHas(urlMap, key)) =>
                      /\ FillsNow[p].imageUrl = MapGet(urlMap, key)
                      /\ FillsNow[p].imageUrl = FillsNow[f].imageUrl

\* a second fill of key "a" asked for cropping where the first did not; the item
\* kept the first one's metadata and both fills were injected with the key's URL
C21_Witness ==
    /\ entry = "util"
    /\ net.collects = 1
    /\ net.injects = 1
    /\ \E p, q \in 1..Len(Fills0) :
          /\ p < q
          /\ HasRef(Fills0[p]) /\ HasRef(Fills0[q])
          /\ ExpectedKey(Fills0[p]) = ExpectedKey(Fills0[q])
          /\ FillInfo(Fills0[p]) # FillInfo(Fills0[q])
          /\ FillInfo(Fills0[q]).needsCropping
          /\ ~MapGet(imageFills, ExpectedKey(Fills0[p]))[1].needsCropping
          /\ FillsNow[q].imageUrl # None
          /\ FillsNow[q].imageUrl = FillsNow[p].imageUrl

\* the file name ends in .svg
EndsInSvg(fileName) == Len(fileName) > 0 /\ fileName[Len(fileName)] = ".svg"

\* the vector jobs processDesignImages enqueues for two nodes, for every response
VectorJobsEnqueued ==
    UNION {Range(EnqueueSvgJobs(<<>>, <<Id12, Id15>>,
                                filterValidImages(ResponseOver(<<Id12, Id15>>, K)))) :
               K \in SUBSET {Id12, Id15}}

\* C22: a vector asset is never cropped: a job whose file name ends in .svg keeps
\* the downloaded bytes, uploads them and has wasCropped false and no crop region,
\* whatever its needsCropping and cropTransform; and every vector job that
\* processDesignImages enqueues has a .svg name, needsCropping false and
\* requiresImageDimensions false.
C22_VectorNeverCropped ==
    /\ (entry = "job" /\ EndsInSvg(job.fileName)) =>
          /\ jr.pc # "extract"
          /\ jr.wasCropped = FALSE
          /\ jr.cropRegion = None
          /\ jr.computed = None
          /\ jr.buffer # None => jr.buffer = Some(Original)
          /\ jr.uploadArg # None => jr.uploadArg = Some(Original)
    /\ \A v \in VectorJobsEnqueued :
          EndsInSvg(v.fileName) /\ ~v.needsCropping /\ ~v.requiresImageDimensions
             /\ v.cropTransform = None

\* a .svg job that asked for a real crop of a readable image was uploaded unchanged
C22_Witness ==
    /\ entry = "job"
    /\ EndsInSvg(job.fileName)
    /\ job.needsCropping
    /\ job.cropTransform = Some(HalfCrop)
    /\ job.image.readable
    /\ job.image.width = 2
    /\ jr.pc = "fulfilled"
    /\ jr.uploadArg = Some(Original)
    /\ Cardinality(VectorJobsEnqueued) = 2

\* the fallback ran to its end and its transfer succeeded: curl exited with output
\* and nothing on stderr that the code takes for an error
FallbackDelivered ==
    /\ entry = "fetchWithRetry"
    /\ jr.curls = 1
    /\ jr.pc \in {"returned", "threw"}
    /\ job.curl.kind = "exited"
    /\ job.curl.stdout # None
    /\ job.curl.stderr \in {<<>>, <<"n", "o", "t", "e">>}

FallbackBody == job.curl.stdout[1]

\* C23 as stated: on the fallback path a body that parses as JSON and carries a
\* status field different from 200 makes the call fail, and a body with no status
\* field or with status 200 is returned as the result.
C23_Original ==
    (FallbackDelivered /\ FallbackBody.kind # "garbage") =>
        /\ (FallbackBody.status # None /\ FallbackBody.status # Some(200)) => jr.pc = "threw"
        /\ (FallbackBody.status = None \/ FallbackBody.status = Some(200)) =>
              (jr.pc = "returned" /\ jr.result = Some(FallbackBody))

\* C23, amended: on the fallback path a JSON object body whose status field is
\* truthy and different from 200 makes the call fail although the transfer
\* succeeded; a JSON object body with no status field, with a falsy status (0) or
\* with status 200 is returned as the result; the JSON null body makes the call fail.
C23_BodyStatusOnFallback ==
    FallbackDelivered =>
        /\ (FallbackBody.kind = "object"
              /\ FallbackBody.status \notin {None, Some(0), Some(200)}) =>
                 (jr.pc = "threw" /\ jr.result = None)
        /\ (FallbackBody.kind = "object"
              /\ FallbackBody.status \in {None, Some(0), Some(200)}) =>
                 (jr.pc = "returned" /\ jr.result = Some(FallbackBody))
        /\ FallbackBody.kind = "null" => jr.pc = "threw"

\* after a timeout of the primary request curl delivered {status: 403}: the call
\* threw
C23_Witness ==
    /\ FallbackDelivered
    /\ job.primary.kind = "transport"
    /\ FallbackBody = JsonObject(Some(403))
    /\ jr.pc = "threw"

\* the job whose upload an entry of the response reports (its URL names the job)
JobOfImage(k) ==
    CHOOSE j \in 1..Len(jr.downloadJobs) :
        jr.response.images[k].s3Url = S3Url(j, jr.downloadJobs[j].fileName)

\* the file names requested for a download item
NamesRequestedFor(item) ==
    {RequestedName(i) : i \in {n \in 1..Len(job.nodes) : ItemOfRequest(n) = item}}

AliasesOf(k) ==
    IF jr.response.images[k].aliases = None THEN {}
    ELSE Range(jr.response.images[k].aliases[1])

\* C24: in the download_figma_images response every reported image is paired with
\* the requests it satisfies: the aliases listed with an uploaded image are exactly
\* the other file names requested for that image's download item, also when earlier
\* items failed or were unresolved and when fill items and rendered-node items are
\* mixed.
C24_AliasesMatchItem ==
    (entry = "downloadFigmaImages" /\ jr.pc = "done" /\ ~jr.response.isError) =>
        \A k \in 1..Len(jr.response.images) :
            AliasesOf(k)
                = NamesRequestedFor(jr.downloadJobs[JobOfImage(k)].item)
                      \ {jr.response.images[k].fileName}

\* two fills are different resources: they differ in imageRef or in filenameSuffix
DifferentResource(f, g) == f.imageRef # g.imageRef \/ SuffixOf(f) # SuffixOf(g)

\* C25: the unique key is injective on (imageRef, filenameSuffix): two image fills
\* that differ in imageRef or in filenameSuffix never get the same unique key, also
\* when a string contains "-", so each has a work item with its own imageRef and
\* suffix and two different resources never share a final URL.
C25_KeyInjective ==
    (entry = "util" /\ net.collects = 1) =>
        \A p, q \in 1..Len(Fills0) :
            (HasRef(Fills0[p]) /\ HasRef(Fills0[q]) /\ DifferentResource(Fills0[p], Fills0[q]))
                => /\ UniqueKey(Fills0[p]) # UniqueKey(Fills0[q])
                   /\ \E i \in 1..Len(imageFills) :
                         /\ imageFills[i].value.imageRef = Fills0[q].imageRef[1]
                         /\ imageFills[i].value.filenameSuffix = SuffixOf(Fills0[q])
                   /\ (FillsNow[p].imageUrl # None /\ FillsNow[q].imageUrl # None)
                         => FillsNow[p].imageUrl # FillsNow[q].imageUrl

RegionExtracted == entry = "job" /\ (jr.pc = "extract" \/ jr.cropRegion # None \/ jr.extractThrew)

\* C27: every crop region that applyCropTransformToBuffer applies lies inside the
\* image: for all sizes W x H and all transform values an extracted region has
\* left >= 0, top >= 0, width >= 1, height >= 1, left + width <= W and
\* top + height <= H.
C27_RegionInsideImage ==
    RegionExtracted =>
        LET r == jr.computed[1]
            W == jr.metadata[1].width
            H == jr.metadata[1].height
        IN /\ r.left >= 0 /\ r.top >= 0
           /\ r.width >= 1 /\ r.height >= 1
           /\ r.left + r.width <= W
           /\ r.top + r.height <= H
           /\ jr.cropRegion # None => jr.cropRegion = Some(r)

\* a transform reaching beyond the right and bottom edges was clamped to the image
C27_Witness ==
    /\ RegionExtracted
    /\ jr.cropRegion # None
    /\ jr.cropRegion[1].left > 0
    /\ jr.cropRegion[1].top > 0
    /\ jr.cropRegion[1].left + jr.cropRegion[1].width = job.image.width
    /\ jr.cropRegion[1].top + jr.cropRegion[1].height = job.image.height
    /\ MathRound(job.cropTransform[1][1][1] * job.image.width, TUnit) > jr.cropRegion[1].width
    /\ MathRound(job.cropTransform[1][2][2] * job.image.height, TUnit) > jr.cropRegion[1].height

\* the primary request settled with a success status and a body that parses as a
\* JSON object
PrimaryDelivered ==
    /\ entry = "fetchWithRetry"
    /\ jr.pc # "fetch"
    /\ job.primary.kind = "response"
    /\ ResponseOk(job.primary.status[1])
    /\ job.primary.body[1].kind = "object"

\* the same body arriving as the output of a clean curl run
SameOverCurl == [kind |-> "exited", stdout |-> job.primary.body, stderr |-> <<>>]

\* C28: the outcome of fetchWithRetry does not depend on the transport: a
\* success-status response whose JSON body carries a status field different from
\* 200 is rejected on the primary path exactly as on the fallback path, so the call
\* returns a body delivered by the primary request only if it would return the same
\* body delivered by curl.
C28_TransportIndependent ==
    PrimaryDelivered =>
        /\ (jr.pc = "returned" /\ jr.curls = 0) <=> CurlTry(SameOverCurl).ok
        /\ BodyStatusFails(job.primary.body[1]) => jr.pc # "returned"

\* the requests of the node list that name an image fill, and the rendered ones
FillRequests == {i \in 1..Len(job.nodes) : TruthyStr(job.nodes[i].imageRef)}
RenderRequests == (1..Len(job.nodes)) \ FillRequests

\* the (imageRef, filenameSuffix) pair of a fill request
PairOf(i) == <<job.nodes[i].imageRef[1], job.nodes[i].filenameSuffix>>

\* the planned download items (indexes in downloadItems) that carry an imageRef
FillItems ==
    {k \in 1..Len(jr.plan.downloadItems) : TruthyStr(jr.plan.downloadItems[k].imageRef)}

\* C29: download_figma_images plans exactly one download per distinct
\* (imageRef, filenameSuffix) pair among the requested nodes: the item of a pair
\* records every file name requested for the pair, with or without a suffix, and
\* its requiresImageDimensions is true if any of the merged requests asked for it;
\* every rendered-node request has a download item of its own.
C29_OneDownloadPerPair ==
    (entry = "downloadFigmaImages" /\ jr.pc # "start") =>
        /\ Cardinality(FillItems) = Cardinality({PairOf(i) : i \in FillRequests})
        /\ \A i \in FillRequests :
              \E k \in FillItems :
                  LET same == {n \in FillRequests : PairOf(n) = PairOf(i)} IN
                  /\ jr.plan.downloadItems[k].imageRef = job.nodes[i].imageRef
                  /\ Range(MapGet(jr.plan.downloadToRequests, k - 1)[1])
                        = {RequestedName(n) : n \in same}
                  /\ jr.plan.downloadItems[k].requiresImageDimensions
                        = (\E n \in same : job.nodes[n].requiresImageDimensions = Some(TRUE))
        /\ Len(jr.plan.downloadItems) - Cardinality(FillItems) = Cardinality(RenderRequests)

\* injectImageUrls ran twice in a row on the design, with the same map
InjectedTwice == entry = "util" /\ net.injects = 2

\* C30: injectImageUrls is idempotent: for every UrlMap and every design, applying
\* it twice in a row with the same map leaves the simplified tree and the Style
\* Registry in the state that applying it once leaves them in.
C30_InjectIdempotent ==
    InjectedTwice =>
        /\ design.nodes = injectImageUrls(design0, urlMap).nodes
        /\ design.styles = injectImageUrls(design0, urlMap).styles

\* two runs over a design in which the first run gave a URL to a fill and to a
\* vector node and left another fill's reference in place
C30_Witness ==
    /\ InjectedTwice
    /\ design.nodes # design0.nodes
    /\ \E i \in 1..Len(design.styles) :
          /\ design.styles[i].isArray
          /\ \E k \in 1..Len(design.styles[i].fills) :
                /\ design.styles[i].fills[k].imageUrl # None
                /\ design0.styles[i].fills[k].imageDownloadArguments # None
    /\ \E i \in 1..Len(design.styles) :
          /\ design.styles[i].isArray
          /\ \E k \in 1..Len(design.styles[i].fills) :
                /\ TruthyStr(design.styles[i].fills[k].imageRef)
                /\ design.styles[i].fills[k].imageUrl = None

====
